---- MODULE Spec2Model ----
(***************************************************************************)
(* Model of go-countdown: the duration codec (parseDuration and            *)
(* formatDuration), the timer store with its filtered views, and the       *)
(* Bubble Tea Update loop of the TUI together with the CLI commands.       *)
(* Instants and durations are whole seconds.  A text is a sequence of      *)
(* one-character strings.                                                  *)
(***************************************************************************)
EXTENDS Integers, Sequences, FiniteSets, TLC

VARIABLES
    \* ---- the TUI model struct (src/main.go 224-245, src/tui.go 19-46)
    timers, now, cursor, filter,
    adding, editing, editingIndex,
    confirmingDelete, confirmingRestart, confirmingBulk, pendingBulkAction,
    inputFields, activeField,
    dirty, lastModTime,
    pendingTicks,   \* the tea.Tick timers armed by tick() and not yet delivered
    \* ---- the environment of the TUI
    clock,      \* the wall clock read by time.Now()
    file,       \* the timers held by the save file
    fileMod,    \* the modification time of the save file
    status,     \* "run", "quit" (tea.Quit) or "panic" (index out of range)
    \* ---- one run of a CLI command (src/main.go 1145-1355)
    cliPc, cliExit,
    \* ---- the duration codec applied to one input
    cd, ctext, cparsed, cpc

tuiVars == <<timers, now, cursor, filter, adding, editing, editingIndex,
             confirmingDelete, confirmingRestart, confirmingBulk,
             pendingBulkAction, inputFields, activeField, dirty, lastModTime,
             pendingTicks>>
envVars == <<clock, file, fileMod, status>>
cliVars == <<cliPc, cliExit>>
codecVars == <<cd, ctext, cparsed, cpc>>
vars == <<tuiVars, envVars, cliVars, codecVars>>

-----------------------------------------------------------------------------
(* Units of the codec, in seconds. *)
Second == 1
Minute == 60
Hour == 3600

Digits == <<"0", "1", "2", "3", "4", "5", "6", "7", "8", "9">>

IsDigit(c) == \E k \in 1..10 : Digits[k] = c

DigitVal(c) == (CHOOSE k \in 1..10 : Digits[k] = c) - 1

(* strings.ToLower on the letters the codec knows. *)
ToLowerChar(c) ==
    CASE c = "S" -> "s"
      [] c = "M" -> "m"
      [] c = "H" -> "h"
      [] c = "D" -> "d"
      [] c = "Y" -> "y"
      [] OTHER -> c

ToLower(t) == [k \in 1..Len(t) |-> ToLowerChar(t[k])]

RECURSIVE TrimLeft(_)
TrimLeft(t) == IF t # <<>> /\ Head(t) = " " THEN TrimLeft(Tail(t)) ELSE t

RECURSIVE TrimRight(_)
TrimRight(t) ==
    IF t # <<>> /\ t[Len(t)] = " " THEN TrimRight(SubSeq(t, 1, Len(t) - 1)) ELSE t

TrimSpace(t) == TrimRight(TrimLeft(t))

(* strconv.Atoi on a non-empty run of digits. *)
RECURSIVE Atoi(_)
Atoi(t) == IF t = <<>> THEN 0 ELSE 10 * Atoi(SubSeq(t, 1, Len(t) - 1)) + DigitVal(t[Len(t)])

(* The end (exclusive) of the run of digits that starts at position i. *)
RECURSIVE DigitsEnd(_, _)
DigitsEnd(t, i) == IF i <= Len(t) /\ IsDigit(t[i]) THEN DigitsEnd(t, i + 1) ELSE i

ParseError == [ok |-> FALSE, val |-> 0]

UnitSeconds(suffix) ==
    CASE suffix = "s" -> Second
      [] suffix = "m" -> Minute
      [] suffix = "h" -> Hour
      [] suffix = "d" -> 24 * Hour
      [] suffix = "y" -> 365 * 24 * Hour
      [] OTHER -> 0

IsUnit(suffix) == suffix \in {"s", "m", "h", "d", "y"}

(* A time.Duration is an int64 count of nanoseconds.  Its bit pattern, a    *)
(* number of 0 .. 2^64 - 1 nanoseconds, is held as h hours, s < 3600        *)
(* seconds and n < 10^9 nanoseconds.                                        *)
Ns(h, s, n) == [h |-> h, s |-> s, n |-> n]

NsZero == Ns(0, 0, 0)

(* 2^64 and 2^63 nanoseconds *)
Two64 == Ns(5124095, 2073, 709551616)
Two63 == Ns(2562047, 2836, 854775808)

NsLess(a, b) ==
    \/ a.h < b.h
    \/ a.h = b.h /\ a.s < b.s
    \/ a.h = b.h /\ a.s = b.s /\ a.n < b.n

NsAdd(a, b) ==
    LET n == a.n + b.n
        s == a.s + b.s + n \div 1000000000
    IN Ns(a.h + b.h + s \div 3600, s % 3600, n % 1000000000)

(* a - b for a >= b *)
NsSub(a, b) ==
    LET bn == IF a.n < b.n THEN 1 ELSE 0
        n == a.n + bn * 1000000000 - b.n
        bs == IF a.s - bn < b.s THEN 1 ELSE 0
        s == a.s - bn + bs * 3600 - b.s
    IN Ns(a.h - bs - b.h, s, n)

(* int64 arithmetic wraps: the bit pattern of x modulo 2^64 *)
RECURSIVE Wrap64(_)
Wrap64(x) == IF NsLess(x, Two64) THEN x ELSE Wrap64(NsSub(x, Two64))

(* The int64 is <= 0: zero, or the sign bit set. *)
NsNotPositive(x) == x = NsZero \/ ~NsLess(x, Two63)

(* time.Duration(num) * unit, for the unit of the suffix *)
ComponentNs(num, suffix) ==
    LET unit == UnitSeconds(suffix)
    IN Wrap64(IF unit >= Hour
              THEN Ns(num * (unit \div Hour), 0, 0)
              ELSE Ns((num * unit) \div Hour, (num * unit) % Hour, 0))

ParseErrorNs == [ok |-> FALSE, ns |-> NsZero]

(* The loop of parseDuration, from position i with the sum so far. *)
RECURSIVE ParseLoop(_, _, _)
ParseLoop(input, i, total) ==
    IF i > Len(input)
    THEN IF NsNotPositive(total) THEN ParseErrorNs ELSE [ok |-> TRUE, ns |-> total]
    ELSE IF input[i] = " "
    THEN ParseLoop(input, i + 1, total)
    ELSE LET j == DigitsEnd(input, i)
             num == Atoi(SubSeq(input, i, j - 1))
             suffix == IF j <= Len(input) THEN input[j] ELSE "s"
             next == IF j <= Len(input) THEN j + 1 ELSE j
         IN IF j = i THEN ParseErrorNs
            ELSE IF num <= 0 THEN ParseErrorNs
            ELSE IF ~IsUnit(suffix) THEN ParseErrorNs
            ELSE ParseLoop(input, next, Wrap64(NsAdd(total, ComponentNs(num, suffix))))

(* parseDuration with its result as the int64 of nanoseconds *)
parseDurationNs(text) ==
    LET input == TrimSpace(ToLower(text))
    IN IF input = <<>> THEN ParseErrorNs ELSE ParseLoop(input, 1, NsZero)

(* parseDuration with its result in whole seconds, for the durations of     *)
(* less than 2^31 seconds the timers of the model hold.                     *)
parseDuration(text) ==
    LET r == parseDurationNs(text)
    IN IF r.ok THEN [ok |-> TRUE, val |-> r.ns.h * Hour + r.ns.s] ELSE ParseError

(* fmt.Sprintf("%d", n) for n >= 0. *)
RECURSIVE Itoa(_)
Itoa(n) == IF n < 10 THEN <<Digits[n + 1]>> ELSE Itoa(n \div 10) \o <<Digits[(n % 10) + 1]>>

(* strings.Join(parts, " ") *)
RECURSIVE Join(_)
Join(parts) ==
    IF parts = <<>> THEN <<>>
    ELSE IF Len(parts) = 1 THEN parts[1]
    ELSE parts[1] \o <<" ">> \o Join(Tail(parts))

Part(n, unit) == Itoa(n) \o unit

(* append(parts, p) when cond holds *)
AppendIf(parts, cond, p) == IF cond THEN Append(parts, p) ELSE parts

FirstN(parts, n) == SubSeq(parts, 1, n)

(* formatDuration without the seconds of an otherwise empty text *)
formatDurationNoZero(d) ==
    LET totalSeconds == d
        days == totalSeconds \div 86400
        hours == (totalSeconds % 86400) \div 3600
        minutes == (totalSeconds % 3600) \div 60
        seconds == totalSeconds % 60
        years == days \div 365
        remainingDaysAfterYears == days % 365
        months == remainingDaysAfterYears \div 30
        remainingDays == remainingDaysAfterYears % 30
        l1 == AppendIf(<<>>, years > 0, Part(years, <<"y">>))
        l2 == AppendIf(l1, months > 0, Part(months, <<"m", "o">>))
        l3 == AppendIf(l2, remainingDays > 0 /\ Len(l2) < 2, Part(remainingDays, <<"d">>))
        l4 == IF Len(l3) > 2 THEN FirstN(l3, 2) ELSE l3
        s3 == AppendIf(l2, remainingDays > 0, Part(remainingDays, <<"d">>))
        s4 == AppendIf(s3, hours > 0, Part(hours, <<"h">>))
        s5 == AppendIf(s4, minutes > 0, Part(minutes, <<"m">>))
        s6 == AppendIf(s5, seconds > 0, Part(seconds, <<"s">>))
    IN IF days > 60 THEN Join(l4)
       ELSE IF Len(s6) > 2
            THEN Join(FirstN(s6, 2)) \o <<" ">> \o Join(SubSeq(s6, 3, Len(s6)))
            ELSE Join(s6)

formatDuration(d) ==
    LET totalSeconds == d
        days == totalSeconds \div 86400
        hours == (totalSeconds % 86400) \div 3600
        minutes == (totalSeconds % 3600) \div 60
        seconds == totalSeconds % 60
        years == days \div 365
        remainingDaysAfterYears == days % 365
        months == remainingDaysAfterYears \div 30
        remainingDays == remainingDaysAfterYears % 30
        l1 == AppendIf(<<>>, years > 0, Part(years, <<"y">>))
        l2 == AppendIf(l1, months > 0, Part(months, <<"m", "o">>))
        l3 == AppendIf(l2, remainingDays > 0 /\ Len(l2) < 2, Part(remainingDays, <<"d">>))
        l4 == IF Len(l3) > 2 THEN FirstN(l3, 2) ELSE l3
        s3 == AppendIf(l2, remainingDays > 0, Part(remainingDays, <<"d">>))
        s4 == AppendIf(s3, hours > 0, Part(hours, <<"h">>))
        s5 == AppendIf(s4, minutes > 0, Part(minutes, <<"m">>))
        s6 == AppendIf(s5, seconds > 0 \/ Len(s5) = 0, Part(seconds, <<"s">>))
    IN IF days > 60 THEN Join(l4)
       ELSE IF Len(s6) > 2
            THEN Join(FirstN(s6, 2)) \o <<" ">> \o Join(SubSeq(s6, 3, Len(s6)))
            ELSE Join(s6)

-----------------------------------------------------------------------------
(* Bounds of the model. *)
MaxTimers == 2      \* the store and the save file hold at most this many timers
MaxClock == 1       \* the wall clock runs from 0 to MaxClock
MaxNameLen == 1     \* characters typed into the name field
MaxDurLen == 2      \* characters typed into the duration field
MaxWrites == 1      \* writes to the save file by other processes
MaxRuns == 3        \* runs of a CLI command that write the save file
MaxSample == 40     \* the codec is applied to every duration of 1..MaxSample seconds
MaxTextLen == 4     \* parseDuration is applied to every text of up to this many characters
MaxUnitLen == 3     \* the texts given to getUnitMultiplier have up to MaxUnitLen characters
MaxPending == 2     \* armed tick timers are counted up to MaxPending
MaxReorder == 3     \* timers of the store the reorder keys are applied to

(* The texts a tea.KeyRunes message carries into the form (one typed rune,  *)
(* or several pasted at once), per field.                                   *)
NameInputs == {<<"a">>}
DurInputs == {<<"1", "s">>, <<"s">>, <<"x">>}

(* filterMode (iota) *)
filterAll == 0
filterActive == 1
filterPaused == 2
filterDone == 3

(* bulkActionType (iota) *)
bulkPauseAll == 0
bulkResumeAll == 1
bulkDeleteDone == 2
bulkRestartAll == 3

Timer(name, end, paused, remaining, duration) ==
    [Name |-> name, End |-> end, Paused |-> paused,
     Remaining |-> remaining, Duration |-> duration]

Min(S) == CHOOSE x \in S : \A y \in S : x <= y

(* FilterMatches with the Done view taking only the timers whose end lies    *)
(* strictly before n.                                                       *)
FilterMatchesStrictDone(t, f, n) ==
    CASE f = filterAll -> TRUE
      [] f = filterActive -> ~t.Paused /\ t.End > n
      [] f = filterPaused -> t.Paused
      [] f = filterDone -> ~t.Paused /\ t.End < n
      [] OTHER -> FALSE

(* The case of getVisibleTimers that timer t falls under, for filter f at    *)
(* instant n (m.now).                                                       *)
FilterMatches(t, f, n) ==
    CASE f = filterAll -> TRUE
      [] f = filterActive -> ~t.Paused /\ t.End > n
      [] f = filterPaused -> t.Paused
      [] f = filterDone -> ~t.Paused /\ ~(t.End > n)
      [] OTHER -> FALSE

(* getVisibleTimers that lists the matching timers last to first. *)
getVisibleTimersReversed(ts, f, n) ==
    LET v == SelectSeq(ts, LAMBDA t : FilterMatches(t, f, n))
    IN [k \in 1..Len(v) |-> v[Len(v) + 1 - k]]

getVisibleTimers(ts, f, n) == SelectSeq(ts, LAMBDA t : FilterMatches(t, f, n))

(* 0-based index into the store of the timer shown at the 0-based position  *)
(* visibleIndex, or -1.                                                     *)
getActualTimerIndex(ts, f, n, visibleIndex) ==
    LET visibleTimers == getVisibleTimers(ts, f, n)
    IN IF visibleIndex < 0 \/ visibleIndex >= Len(visibleTimers)
       THEN -1
       ELSE LET targetTimer == visibleTimers[visibleIndex + 1]
                found == {i \in 1..Len(ts) :
                             ts[i].Name = targetTimer.Name /\ ts[i].End = targetTimer.End}
            IN IF found = {} THEN -1 ELSE Min(found) - 1

Visible == getVisibleTimers(timers, filter, now)
ActualIdx == getActualTimerIndex(timers, filter, now, cursor)

(* append(timers[:i], timers[i+1:]...) for a 0-based i *)
RemoveAt(ts, i) == SubSeq(ts, 1, i) \o SubSeq(ts, i + 2, Len(ts))

(* SwapAt that writes timers[j] over timers[i] and leaves timers[j]. *)
SwapAtCopies(ts, i, j) == [ts EXCEPT ![i + 1] = ts[j + 1]]

(* timers[i], timers[j] = timers[j], timers[i] for 0-based i, j *)
SwapAt(ts, i, j) == [ts EXCEPT ![i + 1] = ts[j + 1], ![j + 1] = ts[i + 1]]

(* Timer.StatusEmoji: "paused" stands for the pause sign, "done" for the    *)
(* check mark, "running" for the hourglass.  The parameter is not read:     *)
(* time.Until(t.End) reads the wall clock.                                  *)
StatusEmoji(t, n) ==
    IF t.Paused THEN "paused"
    ELSE IF t.End - clock <= 0 THEN "done"
    ELSE "running"

(* updateTableRows: the status and the name of each row of the view. *)
updateTableRows(ts, f, n) ==
    LET visibleTimers == getVisibleTimers(ts, f, n)
    IN [i \in 1..Len(visibleTimers) |->
           <<StatusEmoji(visibleTimers[i], n), visibleTimers[i].Name>>]

(* model.View: the delete dialog reads m.timers[actualIdx].Name, which      *)
(* panics when the cursor addresses no timer.                               *)
ViewPanics == confirmingDelete /\ ActualIdx < 0

(* Bubble Tea renders the model after every Update. *)
Rendered == status' = IF ViewPanics' THEN "panic" ELSE "run"

InForm == adding \/ editing
Browsing == ~adding /\ ~editing /\ ~confirmingDelete /\ ~confirmingRestart /\ ~confirmingBulk

-----------------------------------------------------------------------------
(* The state after initialModel(): no save file yet, the store is empty. *)
InitTUI ==
    /\ timers = <<>>
    /\ now = 0
    /\ cursor = 0
    /\ filter = filterAll
    /\ adding = FALSE
    /\ editing = FALSE
    /\ editingIndex = 0
    /\ confirmingDelete = FALSE
    /\ confirmingRestart = FALSE
    /\ confirmingBulk = FALSE
    /\ pendingBulkAction = bulkPauseAll
    /\ inputFields = <<<<>>, <<>>>>
    /\ activeField = 0
    /\ dirty = FALSE
    /\ lastModTime = 0
    /\ pendingTicks = 1

InitEnv ==
    /\ clock = 0
    /\ file = <<>>
    /\ fileMod = 0
    /\ status = "run"

InitCLI ==
    /\ cliPc = "idle"
    /\ cliExit = 0

InitCodec ==
    /\ cd = 0
    /\ ctext = <<>>
    /\ cparsed = ParseError
    /\ cpc = "idle"

Init == InitTUI /\ InitEnv /\ InitCLI /\ InitCodec

-----------------------------------------------------------------------------
(* model.Update, case tea.KeyMsg.                                           *)

(* What no key handler of the TUI touches. *)
KeyFrame == UNCHANGED <<now, clock, cliVars, codecVars>> /\ UNCHANGED pendingTicks

(* What a key handler that ends with `return m, tick()` leaves alone. *)
KeyFrameTick == UNCHANGED <<now, clock, cliVars, codecVars>>

(* `return m, tick()`: one more tea.Tick timer is armed.  The count stops   *)
(* at MaxPending, which stands for MaxPending or more.                      *)
TickArmed == pendingTicks' = Min({pendingTicks + 1, MaxPending})
FileFrame == UNCHANGED <<file, fileMod, lastModTime>>
ModeFrame == UNCHANGED <<adding, editing, editingIndex, confirmingDelete,
                         confirmingRestart, confirmingBulk, pendingBulkAction>>
FormFrame == UNCHANGED <<inputFields, activeField>>

(* GateAllows with "a" let through as well. *)
GateAllowsAdd(k) == k \in {"y", "Y", "n", "N", "d", "esc", "enter", "a"}

(* The keys let through while the delete confirmation is open. *)
GateAllows(k) == k \in {"y", "Y", "n", "N", "d", "esc", "enter"}

(* Key k reaches the main switch on msg.String(). *)
ReachesSwitch(k) ==
    /\ status = "run"
    /\ ~InForm
    /\ ~confirmingBulk
    /\ confirmingDelete => GateAllows(k)

(* case key.Matches(msg, m.defaultKeys.Help): only help.ShowAll changes. *)
KeyHelp ==
    /\ status = "run"
    /\ UNCHANGED <<timers, cursor, filter, dirty>>
    /\ ModeFrame /\ FormFrame /\ FileFrame /\ KeyFrame
    /\ Rendered

(* form: case "up", "shift+tab" *)
FormPrev ==
    /\ status = "run" /\ InForm
    /\ activeField' = IF activeField > 0 THEN activeField - 1 ELSE activeField
    /\ UNCHANGED <<timers, cursor, filter, dirty, inputFields>>
    /\ ModeFrame /\ FileFrame /\ KeyFrame
    /\ Rendered

(* form: case "down", "tab" *)
FormNext ==
    /\ status = "run" /\ InForm
    /\ activeField' = IF activeField < Len(inputFields) - 1 THEN activeField + 1 ELSE activeField
    /\ UNCHANGED <<timers, cursor, filter, dirty, inputFields>>
    /\ ModeFrame /\ FileFrame /\ KeyFrame
    /\ Rendered

ClearedFields == [i \in 1..Len(inputFields) |-> <<>>]

(* The timer written by the edit commit. *)
EditedTimer(t, name, duration) ==
    [t EXCEPT !.Name = name, !.End = clock + duration, !.Duration = duration,
              !.Paused = FALSE, !.Remaining = 0]

(* form: case "enter" *)
FormEnter ==
    /\ status = "run" /\ InForm
    /\ LET name == inputFields[1]
           parsed == parseDuration(inputFields[2])
           valid == parsed.ok /\ name # <<>>
       IN IF activeField < Len(inputFields) - 1
          THEN \* not on the last field: move on, unless the name is empty
               /\ activeField' = IF activeField = 0 /\ name = <<>>
                                 THEN activeField ELSE activeField + 1
               /\ UNCHANGED <<timers, cursor, filter, dirty, inputFields, pendingTicks>>
               /\ ModeFrame
               /\ Rendered
          ELSE IF valid /\ editing /\ editingIndex >= Len(timers)
          THEN \* m.timers[m.editingIndex]: index out of range
               /\ status' = "panic"
               /\ UNCHANGED <<timers, cursor, filter, dirty, inputFields, activeField,
                              pendingTicks>>
               /\ ModeFrame
          ELSE /\ valid /\ ~editing => Len(timers) < MaxTimers
               /\ timers' =
                     IF ~valid THEN timers
                     ELSE IF editing
                     THEN [timers EXCEPT ![editingIndex + 1] =
                               EditedTimer(timers[editingIndex + 1], name, parsed.val)]
                     ELSE Append(timers, Timer(name, clock + parsed.val, FALSE, 0, parsed.val))
               /\ cursor' =
                     IF valid /\ ~editing
                     THEN Len(getVisibleTimers(timers', filter, now)) - 1
                     ELSE cursor
               /\ dirty' = (dirty \/ valid)
               /\ adding' = FALSE
               /\ editing' = FALSE
               /\ inputFields' = ClearedFields
               /\ UNCHANGED <<filter, activeField, editingIndex, confirmingDelete,
                              confirmingRestart, confirmingBulk, pendingBulkAction>>
               /\ TickArmed
               /\ Rendered
    /\ FileFrame /\ KeyFrameTick

(* FormEsc that marks the store as changed. *)
FormEscDirty ==
    /\ status = "run" /\ InForm
    /\ adding' = FALSE
    /\ editing' = FALSE
    /\ inputFields' = ClearedFields
    /\ dirty' = TRUE
    /\ UNCHANGED <<timers, cursor, filter, activeField, editingIndex,
                   confirmingDelete, confirmingRestart, confirmingBulk, pendingBulkAction>>
    /\ FileFrame /\ KeyFrame
    /\ Rendered

(* form: case "esc" *)
FormEsc ==
    /\ status = "run" /\ InForm
    /\ adding' = FALSE
    /\ editing' = FALSE
    /\ inputFields' = ClearedFields
    /\ UNCHANGED <<timers, cursor, filter, dirty, activeField, editingIndex,
                   confirmingDelete, confirmingRestart, confirmingBulk, pendingBulkAction>>
    /\ FileFrame /\ KeyFrame
    /\ Rendered

(* form: case "backspace" *)
FormBackspace ==
    /\ status = "run" /\ InForm
    /\ LET v == inputFields[activeField + 1]
       IN inputFields' =
              IF Len(v) > 0
              THEN [inputFields EXCEPT ![activeField + 1] = SubSeq(v, 1, Len(v) - 1)]
              ELSE inputFields
    /\ UNCHANGED <<timers, cursor, filter, dirty, activeField>>
    /\ ModeFrame /\ FileFrame /\ KeyFrame
    /\ Rendered

(* The duration field takes digits and the suffix letters only. *)
DurationRuneOk(ch) == IsDigit(ch) \/ ch \in {"s", "m", "h", "d", "y"}

(* form: default, msg.Type == tea.KeyRunes. The test reads the first byte   *)
(* of msg.String(), the whole of it is appended.                            *)
FormRune(str) ==
    /\ status = "run" /\ InForm
    /\ Len(inputFields[activeField + 1]) + Len(str)
          <= (IF activeField = 0 THEN MaxNameLen ELSE MaxDurLen)
    /\ inputFields' =
          IF activeField = 0 \/ DurationRuneOk(str[1])
          THEN [inputFields EXCEPT ![activeField + 1] = @ \o str]
          ELSE inputFields
    /\ UNCHANGED <<timers, cursor, filter, dirty, activeField>>
    /\ ModeFrame /\ FileFrame /\ KeyFrame
    /\ Rendered

(* The default of the gate: a key it does not list returns at once. *)
KeySwallowed(k) ==
    /\ status = "run" /\ ~InForm /\ ~confirmingBulk
    /\ confirmingDelete /\ ~GateAllows(k)
    /\ UNCHANGED <<timers, cursor, filter, dirty>>
    /\ ModeFrame /\ FormFrame /\ FileFrame /\ KeyFrame
    /\ Rendered

(* KeyQuit that saves whether or not the store is dirty. *)
KeyQuitAlwaysSaves ==
    /\ ReachesSwitch("q")
    /\ \E saved \in BOOLEAN :
          /\ file' = IF saved THEN timers ELSE file
          /\ fileMod' = IF saved THEN fileMod + 1 ELSE fileMod
          /\ lastModTime' = fileMod'
    /\ status' = "quit"
    /\ UNCHANGED <<timers, cursor, filter, dirty>>
    /\ ModeFrame /\ FormFrame /\ KeyFrame

(* case "q", "ctrl+c": saveToFile may fail, its error is dropped. *)
KeyQuit ==
    /\ ReachesSwitch("q")
    /\ IF dirty
       THEN \E saved \in BOOLEAN :
               /\ file' = IF saved THEN timers ELSE file
               /\ fileMod' = IF saved THEN fileMod + 1 ELSE fileMod
               /\ lastModTime' = fileMod'
       ELSE FileFrame
    /\ status' = "quit"
    /\ UNCHANGED <<timers, cursor, filter, dirty>>
    /\ ModeFrame /\ FormFrame /\ KeyFrame

(* PauseToggled whose resume keeps the end of the timer where it was. *)
PauseToggledKeepsEnd(t, later) ==
    IF ~t.Paused
    THEN IF t.End > clock
         THEN [t EXCEPT !.Remaining = t.End - later, !.Paused = TRUE]
         ELSE t
    ELSE IF t.Remaining > 0
         THEN [t EXCEPT !.Paused = FALSE]
         ELSE t

(* The pause/resume toggle applied to timer t.  Pausing reads the clock     *)
(* twice: t.End.After(time.Now()) at `clock`, then time.Until(t.End) at     *)
(* `later`.                                                                 *)
PauseToggled(t, later) ==
    IF ~t.Paused
    THEN IF t.End > clock
         THEN [t EXCEPT !.Remaining = t.End - later, !.Paused = TRUE]
         ELSE t
    ELSE IF t.Remaining > 0
         THEN [t EXCEPT !.End = clock + t.Remaining, !.Paused = FALSE]
         ELSE t

(* The instants the second clock read of a pause may return: the clock     *)
(* does not go back, and it moves only where the pause branch is taken.     *)
LaterReads(ts, actualIdx) ==
    IF /\ actualIdx >= 0 /\ Len(ts) > 0
       /\ ~ts[actualIdx + 1].Paused /\ ts[actualIdx + 1].End > clock
    THEN clock..MaxClock
    ELSE {clock}

(* case "p" *)
KeyPause ==
    /\ ReachesSwitch("p")
    /\ LET actualIdx == ActualIdx
       IN \E later \in LaterReads(timers, actualIdx) :
             /\ clock' = later
             /\ IF actualIdx >= 0 /\ Len(timers) > 0
                THEN LET t == PauseToggled(timers[actualIdx + 1], later)
                     IN /\ timers' = [timers EXCEPT ![actualIdx + 1] = t]
                        /\ dirty' = (dirty \/ t # timers[actualIdx + 1])
                ELSE UNCHANGED <<timers, dirty>>
    /\ UNCHANGED <<cursor, filter, now, pendingTicks, cliVars, codecVars>>
    /\ ModeFrame /\ FormFrame /\ FileFrame
    /\ Rendered

(* case "up", "k" *)
KeyUp ==
    /\ ReachesSwitch("up")
    /\ cursor' = IF cursor > 0 THEN cursor - 1
                 ELSE IF Len(Visible) = 0 THEN 0 ELSE cursor
    /\ UNCHANGED <<timers, filter, dirty>>
    /\ ModeFrame /\ FormFrame /\ FileFrame /\ KeyFrame
    /\ Rendered

(* case "down", "j" *)
KeyDown ==
    /\ ReachesSwitch("down")
    /\ cursor' = IF cursor < Len(Visible) - 1 THEN cursor + 1 ELSE cursor
    /\ UNCHANGED <<timers, filter, dirty>>
    /\ ModeFrame /\ FormFrame /\ FileFrame /\ KeyFrame
    /\ Rendered

(* KeyReorderUp that leaves the dirty flag as it was. *)
KeyReorderUpClean ==
    /\ ReachesSwitch("ctrl+k")
    /\ LET actualIdx == ActualIdx
       IN IF actualIdx > 0
          THEN /\ timers' = SwapAt(timers, actualIdx - 1, actualIdx)
               /\ cursor' = IF cursor > 0 THEN cursor - 1 ELSE cursor
               /\ dirty' = dirty
          ELSE UNCHANGED <<timers, cursor, dirty>>
    /\ UNCHANGED filter
    /\ ModeFrame /\ FormFrame /\ FileFrame /\ KeyFrame
    /\ Rendered

(* case "ctrl+k", "ctrl+up" *)
KeyReorderUp ==
    /\ ReachesSwitch("ctrl+k")
    /\ LET actualIdx == ActualIdx
       IN IF actualIdx > 0
          THEN /\ timers' = SwapAt(timers, actualIdx - 1, actualIdx)
               /\ cursor' = IF cursor > 0 THEN cursor - 1 ELSE cursor
               /\ dirty' = TRUE
          ELSE UNCHANGED <<timers, cursor, dirty>>
    /\ UNCHANGED filter
    /\ ModeFrame /\ FormFrame /\ FileFrame /\ KeyFrame
    /\ Rendered

(* case "ctrl+j", "ctrl+down" *)
KeyReorderDown ==
    /\ ReachesSwitch("ctrl+j")
    /\ LET actualIdx == ActualIdx
       IN IF actualIdx < Len(timers) - 1 /\ actualIdx >= 0
          THEN /\ timers' = SwapAt(timers, actualIdx, actualIdx + 1)
               /\ cursor' = IF cursor < Len(getVisibleTimers(timers', filter, now)) - 1
                            THEN cursor + 1 ELSE cursor
               /\ dirty' = TRUE
          ELSE UNCHANGED <<timers, cursor, dirty>>
    /\ UNCHANGED filter
    /\ ModeFrame /\ FormFrame /\ FileFrame /\ KeyFrame
    /\ Rendered

(* The delete of timers[actualIdx] with the cursor stepped back when it     *)
(* falls off the end of the view.                                           *)
DeleteCommitted(actualIdx) ==
    /\ timers' = RemoveAt(timers, actualIdx)
    /\ cursor' = IF cursor >= Len(getVisibleTimers(timers', filter, now)) /\ cursor > 0
                 THEN cursor - 1 ELSE cursor
    /\ confirmingDelete' = FALSE
    /\ dirty' = TRUE

(* case "d" *)
KeyDelete ==
    /\ ReachesSwitch("d")
    /\ LET actualIdx == ActualIdx
       IN IF actualIdx < 0 \/ Len(timers) = 0
          THEN UNCHANGED <<timers, cursor, confirmingDelete, dirty>>
          ELSE IF confirmingDelete
          THEN DeleteCommitted(actualIdx)
          ELSE /\ confirmingDelete' = TRUE
               /\ UNCHANGED <<timers, cursor, dirty>>
    /\ UNCHANGED <<filter, adding, editing, editingIndex, confirmingRestart,
                   confirmingBulk, pendingBulkAction>>
    /\ FormFrame /\ FileFrame /\ KeyFrame
    /\ Rendered

(* KeyYes that deletes and leaves the dialog open. *)
KeyYesStaysOpen ==
    /\ ReachesSwitch("y")
    /\ LET actualIdx == ActualIdx
       IN IF confirmingDelete /\ actualIdx >= 0 /\ Len(timers) > 0
          THEN /\ timers' = RemoveAt(timers, actualIdx)
               /\ cursor' = IF cursor >= Len(getVisibleTimers(timers', filter, now)) /\ cursor > 0
                            THEN cursor - 1 ELSE cursor
               /\ dirty' = TRUE
               /\ UNCHANGED confirmingDelete
          ELSE UNCHANGED <<timers, cursor, confirmingDelete, dirty>>
    /\ UNCHANGED <<filter, adding, editing, editingIndex, confirmingRestart,
                   confirmingBulk, pendingBulkAction>>
    /\ FormFrame /\ FileFrame /\ KeyFrame
    /\ Rendered

(* case "y", "Y", "enter" *)
KeyYes ==
    /\ ReachesSwitch("y")
    /\ LET actualIdx == ActualIdx
       IN IF confirmingDelete /\ actualIdx >= 0 /\ Len(timers) > 0
          THEN DeleteCommitted(actualIdx)
          ELSE UNCHANGED <<timers, cursor, confirmingDelete, dirty>>
    /\ UNCHANGED <<filter, adding, editing, editingIndex, confirmingRestart,
                   confirmingBulk, pendingBulkAction>>
    /\ FormFrame /\ FileFrame /\ KeyFrame
    /\ Rendered

(* case "n", "N", "esc" *)
KeyNo ==
    /\ ReachesSwitch("n")
    /\ confirmingDelete' = FALSE
    /\ UNCHANGED <<timers, cursor, filter, dirty, adding, editing, editingIndex,
                   confirmingRestart, confirmingBulk, pendingBulkAction>>
    /\ FormFrame /\ FileFrame /\ KeyFrame
    /\ Rendered

(* case "a" *)
KeyAdd ==
    /\ ReachesSwitch("a")
    /\ adding' = TRUE
    /\ inputFields' = <<<<>>, <<>>>>
    /\ activeField' = 0
    /\ UNCHANGED <<timers, cursor, filter, dirty, editing, editingIndex,
                   confirmingDelete, confirmingRestart, confirmingBulk, pendingBulkAction>>
    /\ FileFrame /\ KeyFrame
    /\ Rendered

(* The restart of timer t at time.Now(). *)
Restarted(t) == [t EXCEPT !.End = clock + t.Duration, !.Paused = FALSE, !.Remaining = 0]

(* KeyRestart without the test of the duration. *)
KeyRestartAnyDuration ==
    /\ ReachesSwitch("r")
    /\ LET actualIdx == ActualIdx
       IN IF actualIdx >= 0 /\ Len(timers) > 0
          THEN /\ timers' = [timers EXCEPT ![actualIdx + 1] = Restarted(@)]
               /\ dirty' = TRUE
               /\ TickArmed
          ELSE UNCHANGED <<timers, dirty, pendingTicks>>
    /\ UNCHANGED <<cursor, filter>>
    /\ ModeFrame /\ FormFrame /\ FileFrame /\ KeyFrameTick
    /\ Rendered

(* case "r" *)
KeyRestart ==
    /\ ReachesSwitch("r")
    /\ LET actualIdx == ActualIdx
       IN IF actualIdx >= 0 /\ Len(timers) > 0 /\ timers[actualIdx + 1].Duration > 0
          THEN /\ timers' = [timers EXCEPT ![actualIdx + 1] = Restarted(@)]
               /\ dirty' = TRUE
               /\ TickArmed
          ELSE UNCHANGED <<timers, dirty, pendingTicks>>
    /\ UNCHANGED <<cursor, filter>>
    /\ ModeFrame /\ FormFrame /\ FileFrame /\ KeyFrameTick
    /\ Rendered

(* case "e" *)
KeyEdit ==
    /\ ReachesSwitch("e")
    /\ LET actualIdx == ActualIdx
       IN IF actualIdx >= 0 /\ Len(timers) > 0
          THEN /\ editing' = TRUE
               /\ editingIndex' = actualIdx
               /\ inputFields' = <<timers[actualIdx + 1].Name,
                                   formatDuration(timers[actualIdx + 1].Duration)>>
               /\ activeField' = 0
          ELSE UNCHANGED <<editing, editingIndex, inputFields, activeField>>
    /\ UNCHANGED <<timers, cursor, filter, dirty, adding, confirmingDelete,
                   confirmingRestart, confirmingBulk, pendingBulkAction>>
    /\ FileFrame /\ KeyFrame
    /\ Rendered

(* The cursor brought back into the view after the filter changed. *)
ClampedCursor(c, n) == IF n = 0 THEN 0 ELSE IF c >= n THEN n - 1 ELSE c

(* case "tab" *)
KeyTab ==
    /\ ReachesSwitch("tab")
    /\ filter' = (filter + 1) % 4
    /\ cursor' = ClampedCursor(cursor, Len(getVisibleTimers(timers, filter', now)))
    /\ UNCHANGED <<timers, dirty>>
    /\ ModeFrame /\ FormFrame /\ FileFrame /\ KeyFrame
    /\ Rendered

(* case "1", "2", "3", "4" *)
KeyFilter(f) ==
    /\ ReachesSwitch("1")
    /\ filter' = f
    /\ cursor' = 0
    /\ UNCHANGED <<timers, dirty>>
    /\ ModeFrame /\ FormFrame /\ FileFrame /\ KeyFrame
    /\ Rendered

-----------------------------------------------------------------------------
(* The bulk operations.  The keys are bound in the key map (DeleteDone "D", *)
(* RestartAll "R", PauseAll "P", ResumeAll "shift+r") and the dialog is     *)
(* rendered by renderConfirmPopup; the executor follows the design text.    *)

(* BulkEligible whose delete-done takes every timer with its end reached,   *)
(* paused or not.                                                           *)
BulkEligiblePausedToo(t, action) ==
    CASE action = bulkPauseAll -> ~t.Paused /\ t.End > clock
      [] action = bulkResumeAll -> t.Paused /\ t.Remaining > 0
      [] action = bulkDeleteDone -> t.End <= clock
      [] action = bulkRestartAll -> t.Duration > 0
      [] OTHER -> FALSE

BulkEligible(t, action) ==
    CASE action = bulkPauseAll -> ~t.Paused /\ t.End > clock
      [] action = bulkResumeAll -> t.Paused /\ t.Remaining > 0
      [] action = bulkDeleteDone -> ~t.Paused /\ t.End <= clock
      [] action = bulkRestartAll -> t.Duration > 0
      [] OTHER -> FALSE

(* BulkApplied whose resume lets the timer end at once. *)
BulkAppliedResumeNow(t, action) ==
    CASE action = bulkPauseAll -> [t EXCEPT !.Remaining = t.End - clock, !.Paused = TRUE]
      [] action = bulkResumeAll -> [t EXCEPT !.End = clock, !.Paused = FALSE]
      [] action = bulkRestartAll -> Restarted(t)
      [] OTHER -> t

BulkApplied(t, action) ==
    CASE action = bulkPauseAll -> [t EXCEPT !.Remaining = t.End - clock, !.Paused = TRUE]
      [] action = bulkResumeAll -> [t EXCEPT !.End = clock + t.Remaining, !.Paused = FALSE]
      [] action = bulkRestartAll -> Restarted(t)
      [] OTHER -> t

BulkCount(ts, action) == Cardinality({i \in 1..Len(ts) : BulkEligible(ts[i], action)})

BulkResult(ts, action) ==
    IF action = bulkDeleteDone
    THEN SelectSeq(ts, LAMBDA t : ~BulkEligible(t, action))
    ELSE [i \in 1..Len(ts) |->
             IF BulkEligible(ts[i], action) THEN BulkApplied(ts[i], action) ELSE ts[i]]

(* A bulk trigger key pressed in the main view opens the confirmation. *)
BulkTrigger(action) ==
    /\ ReachesSwitch("P")
    /\ confirmingBulk' = TRUE
    /\ pendingBulkAction' = action
    /\ UNCHANGED <<timers, cursor, filter, dirty, adding, editing, editingIndex,
                   confirmingDelete, confirmingRestart>>
    /\ FormFrame /\ FileFrame /\ KeyFrame
    /\ Rendered

(* BulkConfirm that marks the store as changed whatever the count. *)
BulkConfirmAlwaysDirty ==
    /\ status = "run" /\ ~InForm /\ confirmingBulk
    /\ timers' = BulkResult(timers, pendingBulkAction)
    /\ dirty' = TRUE
    /\ cursor' = ClampedCursor(cursor, Len(getVisibleTimers(timers', filter, now)))
    /\ confirmingBulk' = FALSE
    /\ pendingBulkAction' = bulkPauseAll
    /\ UNCHANGED <<filter, adding, editing, editingIndex, confirmingDelete,
                   confirmingRestart>>
    /\ FormFrame /\ FileFrame /\ KeyFrame
    /\ Rendered

(* y / Y / enter while the bulk confirmation is open.  The pending action   *)
(* is a field of the ConfirmingBulk mode: it goes when the mode is left.    *)
BulkConfirm ==
    /\ status = "run" /\ ~InForm /\ confirmingBulk
    /\ timers' = BulkResult(timers, pendingBulkAction)
    /\ dirty' = (dirty \/ BulkCount(timers, pendingBulkAction) > 0)
    /\ cursor' = ClampedCursor(cursor, Len(getVisibleTimers(timers', filter, now)))
    /\ confirmingBulk' = FALSE
    /\ pendingBulkAction' = bulkPauseAll
    /\ UNCHANGED <<filter, adding, editing, editingIndex, confirmingDelete,
                   confirmingRestart>>
    /\ FormFrame /\ FileFrame /\ KeyFrame
    /\ Rendered

(* n / N / esc while the bulk confirmation is open. *)
BulkCancel ==
    /\ status = "run" /\ ~InForm /\ confirmingBulk
    /\ confirmingBulk' = FALSE
    /\ pendingBulkAction' = bulkPauseAll
    /\ UNCHANGED <<timers, cursor, filter, dirty, adding, editing, editingIndex,
                   confirmingDelete, confirmingRestart>>
    /\ FormFrame /\ FileFrame /\ KeyFrame
    /\ Rendered

(* Any other key while the bulk confirmation is open. *)
BulkSwallowed ==
    /\ status = "run" /\ ~InForm /\ confirmingBulk
    /\ UNCHANGED <<timers, cursor, filter, dirty>>
    /\ ModeFrame /\ FormFrame /\ FileFrame /\ KeyFrame
    /\ Rendered

-----------------------------------------------------------------------------
(* model.Update, case tickMsg *)
(* TickMsg that does not take the instant of the tick. *)
TickMsgStale ==
    /\ status = "run" /\ pendingTicks >= 1
    /\ now' = now
    /\ pendingTicks' = Min({(pendingTicks - 1) + 1, MaxPending})
    /\ UNCHANGED <<timers, cursor, filter, dirty, clock, cliVars, codecVars>>
    /\ ModeFrame /\ FormFrame /\ FileFrame
    /\ Rendered

(* model.Update, case tickMsg: one armed tick is delivered, and the handler *)
(* arms the next one.                                                       *)
TickMsg ==
    /\ status = "run" /\ pendingTicks >= 1
    /\ now' = clock
    /\ pendingTicks' = Min({(pendingTicks - 1) + 1, MaxPending})
    /\ UNCHANGED <<timers, cursor, filter, dirty, clock, cliVars, codecVars>>
    /\ ModeFrame /\ FormFrame /\ FileFrame
    /\ Rendered

(* FileWatchMsg that reloads only a store without unsaved changes. *)
FileWatchMsgUnlessDirty ==
    /\ status = "run"
    /\ IF fileMod > lastModTime /\ ~dirty
       THEN \E loaded \in BOOLEAN :
               /\ timers' = IF loaded THEN file ELSE timers
               /\ lastModTime' = IF loaded THEN fileMod ELSE lastModTime
       ELSE UNCHANGED <<timers, lastModTime>>
    /\ UNCHANGED <<cursor, filter, dirty, now, clock, file, fileMod, cliVars, codecVars>>
    /\ UNCHANGED pendingTicks
    /\ ModeFrame /\ FormFrame
    /\ Rendered

(* model.Update, case fileWatchMsg: os.Stat, then loadFromFile, which may   *)
(* fail.                                                                    *)
FileWatchMsg ==
    /\ status = "run"
    /\ IF fileMod > lastModTime
       THEN \E loaded \in BOOLEAN :
               /\ timers' = IF loaded THEN file ELSE timers
               /\ lastModTime' = IF loaded THEN fileMod ELSE lastModTime
       ELSE UNCHANGED <<timers, lastModTime>>
    /\ UNCHANGED <<cursor, filter, dirty, now, clock, file, fileMod, cliVars, codecVars>>
    /\ UNCHANGED pendingTicks
    /\ ModeFrame /\ FormFrame
    /\ Rendered

(* One second passes on the wall clock. *)
ClockAdvance ==
    /\ clock < MaxClock
    /\ clock' = clock + 1
    /\ UNCHANGED <<tuiVars, file, fileMod, status, cliVars, codecVars>>

(* What another process may leave in the save file. *)
ExternalFiles ==
    { <<>>,
      <<Timer(<<"a">>, 1, TRUE, 1, 1), Timer(<<"b">>, 1, FALSE, 0, 1)>>,
      <<Timer(<<"a">>, 0, TRUE, 0, 0)>> }

(* Another process (a CLI run) rewrites the save file. *)
ExternalWrite ==
    /\ fileMod < MaxWrites
    /\ \E content \in ExternalFiles : file' = content
    /\ fileMod' = fileMod + 1
    /\ UNCHANGED <<tuiVars, clock, status, cliVars, codecVars>>

OtherKeys == {"a", "e", "p", "r", "q", "up", "down", "ctrl+k", "ctrl+j", "tab", "1", "P"}

Next ==
    \/ KeyHelp
    \/ FormPrev
    \/ FormNext
    \/ FormEnter
    \/ FormEsc
    \/ FormBackspace
    \/ \E str \in (IF activeField = 0 THEN NameInputs ELSE DurInputs) : FormRune(str)
    \/ \E k \in OtherKeys : KeySwallowed(k)
    \/ KeyQuit
    \/ KeyPause
    \/ KeyUp
    \/ KeyDown
    \/ KeyReorderUp
    \/ KeyReorderDown
    \/ KeyDelete
    \/ KeyYes
    \/ KeyNo
    \/ KeyAdd
    \/ KeyRestart
    \/ KeyEdit
    \/ KeyTab
    \/ \E f \in {filterAll, filterActive, filterPaused, filterDone} : KeyFilter(f)
    \/ \E action \in {bulkPauseAll, bulkResumeAll, bulkDeleteDone, bulkRestartAll} :
          BulkTrigger(action)
    \/ BulkConfirm
    \/ BulkCancel
    \/ BulkSwallowed
    \/ TickMsg
    \/ FileWatchMsg
    \/ ClockAdvance
    \/ ExternalWrite

Spec == Init /\ [][Next]_vars

(* The tick chain renews itself for as long as the program runs, and the    *)
(* wall clock goes on.                                                      *)
SpecLive == Spec /\ WF_vars(TickMsg) /\ WF_vars(ClockAdvance)

-----------------------------------------------------------------------------
(* The CLI: one run of main() with a command, which loads the save file,    *)
(* applies the command and saves when it changed something.                 *)

CliFilters == {"", "--active", "--paused", "--done"}

(* getFilteredTimers, which reads time.Now() *)
getFilteredTimers(ts, f) ==
    SelectSeq(ts, LAMBDA t :
        CASE f = "--active" -> ~t.Paused /\ t.End > clock
          [] f = "--paused" -> t.Paused
          [] f = "--done" -> ~t.Paused /\ ~(t.End > clock)
          [] OTHER -> TRUE)

(* resolveIndex that takes an index beyond the view for its last timer. *)
resolveIndexClamped(ts, f, idx) ==
    LET filtered == getFilteredTimers(ts, f)
    IN IF idx < 1 \/ Len(filtered) = 0
       THEN -1
       ELSE LET targetTimer == filtered[IF idx > Len(filtered) THEN Len(filtered) ELSE idx]
                found == {i \in 1..Len(ts) :
                             ts[i].Name = targetTimer.Name /\ ts[i].End = targetTimer.End}
            IN IF found = {} THEN -1 ELSE Min(found) - 1

(* resolveIndex: the 0-based store index of the idx-th (from 1) timer of    *)
(* the filtered list, or -1 for an error.                                   *)
resolveIndex(ts, f, idx) ==
    LET filtered == getFilteredTimers(ts, f)
    IN IF idx < 1 \/ idx > Len(filtered)
       THEN -1
       ELSE LET targetTimer == filtered[idx]
                found == {i \in 1..Len(ts) :
                             ts[i].Name = targetTimer.Name /\ ts[i].End = targetTimer.End}
            IN IF found = {} THEN -1 ELSE Min(found) - 1

(* saveTimers at the end of main(): the write may fail, then exit status 1. *)
CliSave(ts) ==
    \E saved \in BOOLEAN :
        /\ file' = IF saved THEN ts ELSE file
        /\ fileMod' = IF saved THEN fileMod + 1 ELSE fileMod
        /\ cliExit' = IF saved THEN 0 ELSE 1

(* go-countdown add <name> <duration> *)
CLIAdd(name, duration) ==
    /\ fileMod < MaxRuns
    /\ Len(file) < MaxTimers
    /\ cliPc' = "add"
    /\ LET d == parseDuration(duration)
       IN IF ~d.ok
          THEN /\ cliExit' = 1
               /\ UNCHANGED <<file, fileMod>>
          ELSE CliSave(Append(file, Timer(name, clock + d.val, FALSE, 0, d.val)))
    /\ UNCHANGED <<tuiVars, clock, status, codecVars>>

(* go-countdown edit [--filter] <index> <name> <duration> *)
CLIEdit(f, idx, name, durationStr) ==
    /\ fileMod < MaxRuns
    /\ cliPc' = "edit"
    /\ LET actualIdx == resolveIndex(file, f, idx)
           d == parseDuration(durationStr)
       IN IF actualIdx < 0 \/ (durationStr # <<>> /\ ~d.ok)
          THEN /\ cliExit' = 1
               /\ UNCHANGED <<file, fileMod>>
          ELSE LET t == file[actualIdx + 1]
                   named == IF name # <<>> THEN [t EXCEPT !.Name = name] ELSE t
                   timed == IF durationStr # <<>>
                            THEN [named EXCEPT !.Duration = d.val, !.End = clock + d.val,
                                               !.Paused = FALSE, !.Remaining = 0]
                            ELSE named
               IN CliSave([file EXCEPT ![actualIdx + 1] = timed])
    /\ UNCHANGED <<tuiVars, clock, status, codecVars>>

(* A command that ends without a change: no save, exit status as given. *)
CliEnd(code) ==
    /\ cliExit' = code
    /\ UNCHANGED <<file, fileMod>>

(* go-countdown pause [--filter] <index> *)
CLIPause(f, idx) ==
    /\ fileMod < MaxRuns
    /\ cliPc' = "pause"
    /\ LET actualIdx == resolveIndex(file, f, idx)
       IN \E later \in LaterReads(file, actualIdx) :
             /\ clock' = later
             /\ IF actualIdx < 0
                THEN CliEnd(1)
                ELSE LET t == file[actualIdx + 1]
                     IN IF ~t.Paused
                        THEN IF t.End > clock
                             THEN CliSave([file EXCEPT ![actualIdx + 1] =
                                      PauseToggled(t, later)])
                             ELSE CliEnd(1)
                        ELSE CliEnd(0)
    /\ UNCHANGED <<tuiVars, status, codecVars>>

(* go-countdown resume [--filter] <index> *)
CLIResume(f, idx) ==
    /\ fileMod < MaxRuns
    /\ cliPc' = "resume"
    /\ LET actualIdx == resolveIndex(file, f, idx)
       IN IF actualIdx < 0
          THEN CliEnd(1)
          ELSE LET t == file[actualIdx + 1]
               IN IF t.Paused
                  THEN IF t.Remaining > 0
                       THEN CliSave([file EXCEPT ![actualIdx + 1] =
                                [t EXCEPT !.End = clock + t.Remaining, !.Paused = FALSE]])
                       ELSE CliEnd(1)
                  ELSE CliEnd(0)
    /\ UNCHANGED <<tuiVars, clock, status, codecVars>>

(* go-countdown delete [--filter] <index> *)
CLIDelete(f, idx) ==
    /\ fileMod < MaxRuns
    /\ cliPc' = "delete"
    /\ LET actualIdx == resolveIndex(file, f, idx)
       IN IF actualIdx < 0
          THEN CliEnd(1)
          ELSE CliSave(RemoveAt(file, actualIdx))
    /\ UNCHANGED <<tuiVars, clock, status, codecVars>>

(* go-countdown restart [--filter] <index> *)
CLIRestart(f, idx) ==
    /\ fileMod < MaxRuns
    /\ cliPc' = "restart"
    /\ LET actualIdx == resolveIndex(file, f, idx)
       IN IF actualIdx < 0
          THEN CliEnd(1)
          ELSE IF file[actualIdx + 1].Duration > 0
               THEN CliSave([file EXCEPT ![actualIdx + 1] = Restarted(@)])
               ELSE CliEnd(0)
    /\ UNCHANGED <<tuiVars, clock, status, codecVars>>

(* The arguments given to the CLI. *)
CliNames == {<<>>, <<"a">>, <<"b">>}
CliDurations == {<<>>, <<"1", "s">>, <<"2", "s">>, <<"x">>}
CliIndices == 0..(MaxTimers + 1)

NextCLI ==
    \/ \E name \in CliNames, duration \in CliDurations : CLIAdd(name, duration)
    \/ \E f \in CliFilters, idx \in 0..MaxTimers, name \in CliNames,
          durationStr \in CliDurations : CLIEdit(f, idx, name, durationStr)
    \/ \E f \in CliFilters, idx \in CliIndices : CLIPause(f, idx)
    \/ \E f \in CliFilters, idx \in CliIndices : CLIResume(f, idx)
    \/ \E f \in CliFilters, idx \in CliIndices : CLIDelete(f, idx)
    \/ \E f \in CliFilters, idx \in CliIndices : CLIRestart(f, idx)
    \/ ExternalWrite
    \/ ClockAdvance

SpecCLI == Init /\ [][NextCLI]_vars

(* The commands and the pause key with the program started one second       *)
(* before instant 0, so that an end can lie strictly between the two clock  *)
(* reads of a pause.                                                        *)
InitEarly ==
    /\ timers = <<>> /\ now = -1 /\ cursor = 0 /\ filter = filterAll
    /\ adding = FALSE /\ editing = FALSE /\ editingIndex = 0
    /\ confirmingDelete = FALSE /\ confirmingRestart = FALSE
    /\ confirmingBulk = FALSE /\ pendingBulkAction = bulkPauseAll
    /\ inputFields = <<<<>>, <<>>>> /\ activeField = 0
    /\ dirty = FALSE /\ lastModTime = 0 /\ pendingTicks = 1
    /\ clock = -1 /\ file = <<>> /\ fileMod = 0 /\ status = "run"
    /\ InitCLI /\ InitCodec

NextRace ==
    \/ \E name \in CliNames, duration \in CliDurations : CLIAdd(name, duration)
    \/ \E f \in CliFilters, idx \in CliIndices : CLIPause(f, idx)
    \/ \E f \in CliFilters, idx \in CliIndices : CLIResume(f, idx)
    \/ \E f \in CliFilters, idx \in CliIndices : CLIDelete(f, idx)
    \/ \E f \in CliFilters, idx \in CliIndices : CLIRestart(f, idx)
    \/ ClockAdvance
    \/ FileWatchMsg
    \/ KeyPause
    \/ KeyDown

SpecRace == InitEarly /\ [][NextRace]_vars

(* The browsing keys on a store of MaxReorder timers, each running until    *)
(* instant 1 or paused at instant 0 with one second left.                   *)
ReorderNames == <<<<"a">>, <<"b">>, <<"c">>>>

ReorderStores ==
    { [i \in 1..MaxReorder |->
          IF p[i] THEN Timer(ReorderNames[i], 1, TRUE, 1, 1)
          ELSE Timer(ReorderNames[i], 1, FALSE, 0, 1)] :
      p \in [1..MaxReorder -> BOOLEAN] }

InitReorder ==
    /\ timers \in ReorderStores
    /\ now = 0 /\ cursor = 0 /\ filter = filterAll
    /\ adding = FALSE /\ editing = FALSE /\ editingIndex = 0
    /\ confirmingDelete = FALSE /\ confirmingRestart = FALSE
    /\ confirmingBulk = FALSE /\ pendingBulkAction = bulkPauseAll
    /\ inputFields = <<<<>>, <<>>>> /\ activeField = 0
    /\ dirty = FALSE /\ lastModTime = 0 /\ pendingTicks = 1
    /\ InitEnv /\ InitCLI /\ InitCodec

NextReorder ==
    \/ KeyReorderUp
    \/ KeyReorderDown
    \/ KeyUp
    \/ KeyDown
    \/ KeyTab
    \/ \E f \in {filterAll, filterActive, filterPaused, filterDone} : KeyFilter(f)
    \/ TickMsg
    \/ ClockAdvance

SpecReorder == InitReorder /\ [][NextReorder]_vars

-----------------------------------------------------------------------------
(* The codec applied to one duration: formatDuration, then parseDuration of *)
(* the text it gave.                                                        *)

DurationSamples ==
    (0..MaxSample) \cup
    { 59, 60, 61, 119, 3599, 3600, 3601, 3661, 5400, 86399, 86400, 86401, 90061,
      30 * 86400, 31 * 86400, 45 * 86400 + 3600, 60 * 86400, 61 * 86400,
      61 * 86400 + 3600, 100 * 86400, 365 * 86400, 366 * 86400, 400 * 86400 + 1 }

InitSample ==
    /\ InitTUI /\ InitEnv /\ InitCLI
    /\ cd \in DurationSamples
    /\ ctext = <<>>
    /\ cparsed = ParseError
    /\ cpc = "idle"

CodecFormat ==
    /\ cpc = "idle"
    /\ ctext' = formatDuration(cd)
    /\ cpc' = "formatted"
    /\ UNCHANGED <<tuiVars, envVars, cliVars, cd, cparsed>>

CodecParse ==
    /\ cpc = "formatted"
    /\ cparsed' = parseDuration(ctext)
    /\ cpc' = "parsed"
    /\ UNCHANGED <<tuiVars, envVars, cliVars, cd, ctext>>

NextCodec == CodecFormat \/ CodecParse

SpecCodec == InitSample /\ [][NextCodec]_vars

-----------------------------------------------------------------------------
(* parseDuration applied to one text. *)

ParseAlphabet == {"0", "1", "3", "s", "m", "y", "H", " ", "x"}

ParseTexts ==
    UNION {[1..n -> ParseAlphabet] : n \in 0..MaxTextLen}
      \cup {<<"1", "h", "3", "0", "m">>, <<"1", "h", " ", "3", "0", "m">>,
            <<" ", "2", "D", "1", "2", "h", " ">>, <<"1", "h", " ", "3", "0", " ", "m">>,
            <<"6", "0", "0", "y">>, <<"3", "0", "0", "y", " ", "3", "0", "0", "y">>}

InitText ==
    /\ InitTUI /\ InitEnv /\ InitCLI
    /\ cd = 0
    /\ ctext \in ParseTexts
    /\ cparsed = ParseErrorNs
    /\ cpc = "text"

CodecParseText ==
    /\ cpc = "text"
    /\ cparsed' = parseDurationNs(ctext)
    /\ cpc' = "parsedText"
    /\ UNCHANGED <<tuiVars, envVars, cliVars, cd, ctext>>

NextParse == CodecParseText

SpecParse == InitText /\ [][NextParse]_vars

-----------------------------------------------------------------------------
(* The +/- adjustment of the duration field: adjustDuration, then           *)
(* parseDuration of the text it returned.                                   *)

(* DurationUnit *)
AdjustUnits == {"smart", "seconds", "minutes", "hours"}

(* formatForInput, for a duration of whole seconds *)
formatForInput(d) ==
    LET totalSeconds == d
        days == totalSeconds \div 86400
        hours == (totalSeconds % 86400) \div 3600
        minutes == (totalSeconds % 3600) \div 60
        seconds == totalSeconds % 60
        years == days \div 365
        remainingDays == days % 365
        months == remainingDays \div 30
        l1 == AppendIf(<<>>, years > 0, Part(years, <<"y">>))
        l2 == AppendIf(l1, months > 0, Part(months, <<"m", "o">>))
        l3 == AppendIf(l2, remainingDays % 30 > 0 /\ Len(l2) < 2,
                       Part(remainingDays % 30, <<"d">>))
        h1 == <<Part(hours, <<"h">>)>>
        h2 == AppendIf(h1, minutes > 0, Part(minutes, <<"m">>))
        m1 == <<Part(minutes, <<"m">>)>>
        m2 == AppendIf(m1, seconds > 0 /\ Len(m1) < 2, Part(seconds, <<"s">>))
    IN IF totalSeconds <= 0 THEN <<>>
       ELSE IF days > 0 THEN Join(l3)
       ELSE IF hours > 0 THEN Join(h2)
       ELSE IF minutes > 0 THEN Join(m2)
       ELSE Join(<<Part(seconds, <<"s">>)>>)

(* adjustDuration: the config is not read. *)
adjustDuration(currentInput, delta, config) ==
    LET r == parseDuration(currentInput)
        currentDur == IF r.ok THEN r.val ELSE 0
        newDur == currentDur + delta
    IN formatForInput(IF newDur < Second THEN Second ELSE newDur)

AdjustTexts ==
    { <<>>, <<"x">>, <<"s">>, <<"1">>, <<"1", "s">>, <<"5", "9", "s">>,
      <<"1", "m">>, <<"5", "9", "m">>, <<"1", "h">>, <<"1", "h", "3", "0", "m">>,
      <<"2", "3", "h">>, <<"1", "d">>, <<"2", "9", "d">>, <<"3", "0", "d">>,
      <<"3", "6", "4", "d">>, <<"1", "y">>, <<"1", "h", "1", "m", "1", "s">> }

AdjustDeltas ==
    { -365 * 86400, -86400, -3600, -60, -5, -1, 0, 1, 5, 60, 3600, 86400,
      365 * 86400 }

InitAdjust ==
    /\ InitTUI /\ InitEnv /\ InitCLI
    /\ cd \in AdjustDeltas
    /\ ctext \in AdjustTexts
    /\ cparsed = ParseError
    /\ cpc = "input"

CodecAdjust ==
    /\ cpc = "input"
    /\ \E config \in AdjustUnits : ctext' = adjustDuration(ctext, cd, config)
    /\ cpc' = "adjusted"
    /\ UNCHANGED <<tuiVars, envVars, cliVars, cd, cparsed>>

CodecReadBack ==
    /\ cpc = "adjusted"
    /\ cparsed' = parseDuration(ctext)
    /\ cpc' = "readBack"
    /\ UNCHANGED <<tuiVars, envVars, cliVars, cd, ctext>>

NextAdjust == CodecAdjust \/ CodecReadBack

SpecAdjust == InitAdjust /\ [][NextAdjust]_vars

-----------------------------------------------------------------------------
(* The unit of the +/- adjustment: getUnitMultiplier on one text.           *)

(* containsUnit: the suffix occurs right after a digit. *)
containsUnit(input, suffix) ==
    \E i \in 1..Len(input) :
        input[i] = suffix /\ i > 1 /\ IsDigit(input[i - 1])

(* detectLargestUnit: the first of y, d, h, m, s the text contains, or "". *)
detectLargestUnit(input) ==
    IF containsUnit(input, "y") THEN "y"
    ELSE IF containsUnit(input, "d") THEN "d"
    ELSE IF containsUnit(input, "h") THEN "h"
    ELSE IF containsUnit(input, "m") THEN "m"
    ELSE IF containsUnit(input, "s") THEN "s"
    ELSE ""

(* getUnitMultiplier, in seconds *)
getUnitMultiplier(unit, currentInput) ==
    CASE unit = "seconds" -> Second
      [] unit = "minutes" -> Minute
      [] unit = "hours" -> Hour
      [] unit = "smart" ->
           LET largestUnit == detectLargestUnit(currentInput)
           IN CASE largestUnit = "y" -> 365 * 24 * Hour
                [] largestUnit = "d" -> 24 * Hour
                [] largestUnit = "h" -> Hour
                [] largestUnit = "m" -> Minute
                [] OTHER -> Minute
      [] OTHER -> Minute

UnitAlphabet == {"1", "s", "m", "h", "d", "y", " "}

UnitTexts == UNION {[1..n -> UnitAlphabet] : n \in 0..MaxUnitLen}

InitUnit ==
    /\ InitTUI /\ InitEnv /\ InitCLI
    /\ cd \in AdjustUnits
    /\ ctext \in UnitTexts
    /\ cparsed = 0
    /\ cpc = "unitInput"

CodecUnit ==
    /\ cpc = "unitInput"
    /\ cparsed' = getUnitMultiplier(cd, ctext)
    /\ cpc' = "unit"
    /\ UNCHANGED <<tuiVars, envVars, cliVars, cd, ctext>>

NextUnit == CodecUnit

SpecUnit == InitUnit /\ [][NextUnit]_vars

-----------------------------------------------------------------------------
(* The popup overlay: renderPopupOverlay on the lines of the main view and  *)
(* of the popup.  A line is a text; the rendered string is held as its      *)
(* rows, the pieces between the "\n" the loop writes.                       *)

(* popupWidth, and the width and height taken when the model has none yet *)
PopupWidth == 66
DefaultWidth == 80
DefaultHeight == 24

(* Integer division of Go: the quotient is truncated toward zero (b > 0). *)
GoDiv(a, b) == IF a >= 0 THEN a \div b ELSE -((-a) \div b)

Max(a, b) == IF a >= b THEN a ELSE b

(* strings.Repeat(" ", n) *)
Spaces(n) == [i \in 1..n |-> " "]

(* A 0-based index i is within the slice. *)
IndexOk(lines, i) == 0 <= i /\ i < Len(lines)

(* InBand with the band open at the bottom. *)
InBandOpen(row, popupStartRow, popupHeight) == row >= popupStartRow

(* The row carries a line of the popup. *)
InBand(row, popupStartRow, popupHeight) ==
    row >= popupStartRow /\ row < popupStartRow + popupHeight

(* One row of the band: background, popup line, rest of the background. *)
OverlayLine(bgLine, popupLine, popupStartCol, popupEndCol) ==
    LET before == IF Len(bgLine) > popupStartCol
                  THEN SubSeq(bgLine, 1, popupStartCol)
                  ELSE bgLine \o (IF Len(bgLine) < popupStartCol
                                  THEN Spaces(popupStartCol - Len(bgLine))
                                  ELSE <<>>)
        after == IF Len(bgLine) > popupEndCol
                 THEN SubSeq(bgLine, popupEndCol + 1, Len(bgLine))
                 ELSE <<>>
    IN before \o popupLine \o after

(* renderPopupOverlay: panic tells that popupLines or mainLines was indexed *)
(* out of range, rows are the rows of the string returned otherwise.        *)
renderPopupOverlay(mainLines, popupLines, mWidth, mHeight) ==
    LET width == IF mWidth = 0 THEN DefaultWidth ELSE mWidth
        height == IF mHeight = 0 THEN DefaultHeight ELSE mHeight
        popupHeight == Len(popupLines)
        popupStartRow == Max(0, GoDiv(height - popupHeight, 2))
        popupStartCol == Max(0, GoDiv(width - PopupWidth, 2))
        popupEndCol == popupStartCol + PopupWidth
        bgLine(row) == IF row < Len(mainLines) THEN mainLines[row + 1] ELSE <<>>
        Panics(row) == /\ InBand(row, popupStartRow, popupHeight)
                       /\ ~IndexOk(popupLines, row - popupStartRow)
        Row(row) ==
            IF InBand(row, popupStartRow, popupHeight)
            THEN OverlayLine(bgLine(row), popupLines[row - popupStartRow + 1],
                             popupStartCol, popupEndCol)
            ELSE IF row < Len(mainLines) THEN mainLines[row + 1] ELSE Spaces(width)
    IN IF \E row \in 0..(height - 1) : Panics(row)
       THEN [panic |-> TRUE, rows |-> <<>>]
       ELSE [panic |-> FALSE, rows |-> [r \in 1..height |-> Row(r - 1)]]

(* A line of n times the character c. *)
LineOf(c, n) == [i \in 1..n |-> c]

PopupWidths == {0, 10, 67, 70, 81}
PopupHeights == {0, 1, 2, 3, 5}

(* Main views: rows of equal length, and one of rows of different lengths. *)
MainViews ==
    { [r \in 1..n |-> LineOf(".", w)] : n \in {1, 3, 6}, w \in {0, 1, 7, 75, 90} }
      \cup { << LineOf(".", 80), <<>>, LineOf(".", 2), LineOf(".", 73), LineOf(".", 74) >> }

(* Popups of 1, 2, 4 and 30 lines. *)
Popups ==
    { [r \in 1..n |-> LineOf("#", w)] : n \in {1, 2, 4, 30}, w \in {PopupWidth} }
      \cup { << <<>>, LineOf("#", 3) >> }

InitPopup ==
    /\ InitTUI /\ InitEnv /\ InitCLI
    /\ cd \in [mainLines : MainViews, popupLines : Popups,
               width : PopupWidths, height : PopupHeights]
    /\ ctext = <<>>
    /\ cparsed = [panic |-> FALSE, rows |-> <<>>]
    /\ cpc = "frame"

CodecOverlay ==
    /\ cpc = "frame"
    /\ cparsed' = renderPopupOverlay(cd.mainLines, cd.popupLines, cd.width, cd.height)
    /\ cpc' = "composited"
    /\ UNCHANGED <<tuiVars, envVars, cliVars, cd, ctext>>

NextPopup == CodecOverlay

SpecPopup == InitPopup /\ [][NextPopup]_vars

-----------------------------------------------------------------------------
(* The properties. *)

ModeFlags == <<adding, editing, confirmingDelete, confirmingRestart, confirmingBulk>>
DialogOpen == confirmingDelete \/ confirmingRestart \/ confirmingBulk
BulkActions == {bulkPauseAll, bulkResumeAll, bulkDeleteDone, bulkRestartAll}
Buckets == {filterActive, filterPaused, filterDone}

(* C1: in every reachable state every timer of the store falls in exactly   *)
(* one of the Active, Paused and Done views at m.now, and the lengths of    *)
(* the three views add up to the length of the store.                       *)
C1_Partition ==
    /\ \A i \in 1..Len(timers) :
          Cardinality({f \in Buckets : FilterMatches(timers[i], f, now)}) = 1
    /\ Len(getVisibleTimers(timers, filterActive, now))
         + Len(getVisibleTimers(timers, filterPaused, now))
         + Len(getVisibleTimers(timers, filterDone, now)) = Len(timers)

(* A store with a paused timer and a timer ending exactly at m.now. *)
C1_Witness ==
    /\ Len(timers) = 2
    /\ \E i, j \in 1..Len(timers) :
          /\ timers[i].Paused
          /\ ~timers[j].Paused /\ timers[j].End = now

(* C2: after any sequence of key, tick and reload events at most one of     *)
(* adding, editing, confirmingDelete, confirmingRestart and confirmingBulk  *)
(* is true.                                                                 *)
C2_ModeExclusive ==
    Cardinality({k \in 1..Len(ModeFlags) : ModeFlags[k]}) <= 1

(* The delete dialog is open over a store that a tick and a reload have     *)
(* reached.                                                                 *)
C2_Witness ==
    /\ status = "run"
    /\ confirmingDelete /\ ~adding /\ ~editing /\ ~confirmingBulk
    /\ now > 0 /\ lastModTime > 0

(* C3: while a confirmation dialog is open a key other than y/Y/enter, n/N  *)
(* and esc (here "d", the help key, and the keys the gates drop) leaves the *)
(* store, the cursor, the filter, the dirty flag and the mode unchanged.    *)
C3_DialogLockout ==
    [][ (DialogOpen /\ (KeyDelete \/ KeyHelp \/ BulkSwallowed
                          \/ \E k \in OtherKeys : KeySwallowed(k)))
        => UNCHANGED <<timers, cursor, filter, dirty, ModeFlags>> ]_vars

(* C4: with a confirmation dialog open, a confirm key ends in Browsing with *)
(* the pending action done (the timer under the cursor removed, or the bulk *)
(* action applied), and a cancel key ends in Browsing with the store and    *)
(* the dirty flag as they were.                                             *)
C4_ConfirmEndsBrowsing ==
    [][ /\ (confirmingDelete /\ KeyYes)
            => (Browsing' /\ dirty' /\ Len(timers') = Len(timers) - 1
                  /\ timers' = SubSeq(timers, 1, ActualIdx)
                                 \o SubSeq(timers, ActualIdx + 2, Len(timers)))
        /\ (confirmingDelete /\ KeyNo)
            => (Browsing' /\ timers' = timers /\ dirty' = dirty)
        /\ (confirmingBulk /\ BulkConfirm)
            => (Browsing' /\ timers' = BulkResult(timers, pendingBulkAction))
        /\ (confirmingBulk /\ BulkCancel)
            => (Browsing' /\ timers' = timers /\ dirty' = dirty) ]_vars

(* The delete dialog is open on the second of two timers and the confirm    *)
(* key is taken.                                                            *)
C4_Witness ==
    /\ status = "run" /\ confirmingDelete
    /\ Len(timers) = 2 /\ ActualIdx = 1
    /\ ENABLED KeyYes

(* C5: the trigger key of a destructive or bulk action ("d", "r", a bulk    *)
(* key) pressed in Browsing changes no timer.                               *)
C5_TriggerKeepsStore ==
    [][ (Browsing /\ (KeyDelete \/ KeyRestart \/ \E action \in BulkActions : BulkTrigger(action)))
        => timers' = timers ]_vars

(* C6: opening the form, typing into it and moving between its fields       *)
(* leave the store and the dirty flag as they were, and esc then returns to *)
(* Browsing, again with the store and the dirty flag as they were.          *)
C6_EscapeDiscards ==
    [][ /\ (Browsing /\ (KeyAdd \/ KeyEdit))
            => (timers' = timers /\ dirty' = dirty)
        /\ (InForm /\ (FormPrev \/ FormNext \/ FormBackspace
                         \/ \E str \in NameInputs \cup DurInputs : FormRune(str)))
            => (timers' = timers /\ dirty' = dirty /\ InForm')
        /\ (InForm /\ FormEsc)
            => (timers' = timers /\ dirty' = dirty /\ Browsing') ]_vars

(* The edit form is open with text typed into both fields, over a store     *)
(* without unsaved changes, and esc is taken.                               *)
C6_Witness ==
    /\ status = "run" /\ InForm /\ ~dirty
    /\ timers # <<>>
    /\ inputFields[1] # <<>> /\ inputFields[2] # <<>>
    /\ ENABLED FormEsc

(* C7: in the form with the focus on the duration field, Enter with an      *)
(* empty name or a duration text that does not parse keeps the form open    *)
(* and changes neither the store nor the dirty flag.                        *)
C7_InvalidEnterStaysEditing ==
    [][ (/\ InForm /\ activeField = Len(inputFields) - 1
         /\ (inputFields[1] = <<>> \/ ~parseDuration(inputFields[2]).ok)
         /\ FormEnter)
        => (InForm' /\ timers' = timers /\ dirty' = dirty) ]_vars

(* C8: after a form commit (valid name and duration) the mode is Browsing,  *)
(* dirty is true, the cursor is not negative and resolves under the current *)
(* filter to the timer added or edited.                                     *)
C8_CommitCursorResolves ==
    [][ (/\ InForm /\ activeField = Len(inputFields) - 1
         /\ inputFields[1] # <<>> /\ parseDuration(inputFields[2]).ok
         /\ FormEnter /\ status' = "run")
        => (/\ Browsing' /\ dirty'
            /\ cursor' >= 0
            /\ getActualTimerIndex(timers', filter', now', cursor')
                 = IF adding THEN Len(timers') - 1 ELSE editingIndex) ]_vars

(* C9: every timer of the store and of the save file, whether the form or   *)
(* the CLI add and edit commands wrote it, has a non-empty name.            *)
C9_NamesNonEmpty ==
    /\ \A i \in 1..Len(timers) : timers[i].Name # <<>>
    /\ \A i \in 1..Len(file) : file[i].Name # <<>>

(* The grammar of C11, read from the end of the text: the last component,   *)
(* which alone may lack its unit, then the text before it.                  *)
C11_DigitsStart(t, j) ==
    IF j >= 1 /\ IsDigit(t[j])
    THEN CHOOSE i \in 1..j :
            /\ \A k \in i..j : IsDigit(t[k])
            /\ (i = 1 \/ ~IsDigit(t[i - 1]))
    ELSE j + 1

C11_UnitNs(num, u) ==
    CASE u = "s" -> Ns(num \div 3600, num % 3600, 0)
      [] u = "m" -> Ns(num \div 60, (num % 60) * 60, 0)
      [] u = "h" -> Ns(num, 0, 0)
      [] u = "d" -> Ns(24 * num, 0, 0)
      [] u = "y" -> Ns(365 * 24 * num, 0, 0)

RECURSIVE C11_Components(_, _)
C11_Components(t, bare) ==
    LET last == t[Len(t)]
        numEnd == IF IsDigit(last) THEN Len(t) ELSE Len(t) - 1
        u == IF IsDigit(last) THEN "s" ELSE last
        st == C11_DigitsStart(t, numEnd)
        num == Atoi(SubSeq(t, st, numEnd))
        before == TrimRight(SubSeq(t, 1, st - 1))
        rest == C11_Components(before, FALSE)
    IN IF t = <<>> THEN [ok |-> FALSE, ns |-> NsZero]
       ELSE IF IsDigit(last) /\ ~bare THEN [ok |-> FALSE, ns |-> NsZero]
       ELSE IF ~IsDigit(last) /\ last \notin {"s", "m", "h", "d", "y"}
            THEN [ok |-> FALSE, ns |-> NsZero]
       ELSE IF st > numEnd \/ num <= 0 THEN [ok |-> FALSE, ns |-> NsZero]
       ELSE IF before = <<>> THEN [ok |-> TRUE, ns |-> C11_UnitNs(num, u)]
       ELSE IF ~rest.ok THEN [ok |-> FALSE, ns |-> NsZero]
       ELSE [ok |-> TRUE, ns |-> NsAdd(rest.ns, C11_UnitNs(num, u))]

C11_Grammar(text) == C11_Components(TrimSpace(ToLower(text)), TRUE)

(* C11: parseDuration succeeds exactly on the texts of the grammar (after   *)
(* trimming and lower-casing: components of digits and a unit of s, m, h,   *)
(* d, y, the unit optional at the end of input only, spaces between         *)
(* components only, every component > 0), and then returns the sum of the   *)
(* components.                                                              *)
C11_ParseGrammar ==
    cpc = "parsedText" =>
        /\ cparsed.ok = C11_Grammar(ctext).ok
        /\ cparsed.ok => cparsed.ns = C11_Grammar(ctext).ns

(* The units of a duration of d seconds, from years down to seconds: years  *)
(* of 365 days, months of 30 days.                                          *)
C12_Units(d) ==
    LET inYear == d % (365 * 86400)
        inMonth == inYear % (30 * 86400)
    IN << <<d \div (365 * 86400), <<"y">> >>,
          <<inYear \div (30 * 86400), <<"m", "o">> >>,
          <<inMonth \div 86400, <<"d">> >>,
          <<(d % 86400) \div 3600, <<"h">> >>,
          <<(d % 3600) \div 60, <<"m">> >>,
          <<d % 60, <<"s">> >> >>

C12_NonZero(units) == SelectSeq(units, LAMBDA p : p[1] > 0)

(* The units written out, one space between two of them. *)
RECURSIVE C12_Spaced(_)
C12_Spaced(units) ==
    IF units = <<>> THEN <<>>
    ELSE LET front == C12_Spaced(SubSeq(units, 1, Len(units) - 1))
             last == units[Len(units)]
         IN (IF front = <<>> THEN <<>> ELSE front \o <<" ">>) \o Itoa(last[1]) \o last[2]

(* C12: formatDuration(d) is never empty for d >= 0 and zero gives "0s";    *)
(* above 60 whole days the text is the first two non-zero units among       *)
(* years, months and remaining days; otherwise it is every non-zero unit    *)
(* from years down to seconds, a single space between two units.            *)
C12_FormatShape ==
    cpc \in {"formatted", "parsed"} =>
        LET units == C12_Units(cd)
            coarse == C12_NonZero(SubSeq(units, 1, 3))
        IN /\ ctext # <<>>
           /\ cd = 0 => ctext = <<"0", "s">>
           /\ cd \div 86400 > 60 =>
                 ctext = C12_Spaced(IF Len(coarse) > 2 THEN SubSeq(coarse, 1, 2) ELSE coarse)
           /\ (cd > 0 /\ cd \div 86400 <= 60) => ctext = C12_Spaced(C12_NonZero(units))

(* A duration of more than a year with months and days left over has been   *)
(* formatted.                                                               *)
C12_Witness ==
    /\ cpc = "formatted"
    /\ cd \div 86400 > 60
    /\ Len(C12_NonZero(SubSeq(C12_Units(cd), 1, 3))) = 3

(* C10: for a duration d >= 1s, parseDuration(formatDuration(d)) succeeds   *)
(* and is within one second of d.                                           *)
C10_RoundTrip ==
    (cpc = "parsed" /\ cd >= 1) => (cparsed.ok /\ cparsed.val - cd \in -1..1)

(* C13: the text adjustDuration returns, read back by parseDuration, is a   *)
(* duration of at least one second, whatever the current text, the signed   *)
(* delta and the config.                                                    *)
C13_AdjustReadsBack ==
    cpc = "readBack" => cparsed.ok /\ cparsed.val >= Second

(* C14: pausing a running timer (end e after the instant of the key) at     *)
(* the instant t1 time.Until reads stores e - t1 as its remaining time and  *)
(* leaves e in place; resuming a                                            *)
(* paused timer with remaining time r at t2 makes it run again with end     *)
(* t2 + r.  A timer paused at t1 and resumed at t2 is therefore active with *)
(* end t2 + (e - t1).                                                       *)
C14_PauseResume ==
    [][ (KeyPause /\ ActualIdx >= 0) =>
          LET t == timers[ActualIdx + 1]
              u == timers'[ActualIdx + 1]
          IN /\ (~t.Paused /\ t.End > clock)
                  => (u.Paused /\ u.Remaining = t.End - clock' /\ u.End = t.End)
             /\ (t.Paused /\ t.Remaining > 0)
                  => (~u.Paused /\ u.End = clock + t.Remaining
                        /\ u.End > now) ]_vars

(* A timer added at instant 0 for one second, paused at 0 and resumed at    *)
(* instant 1: it runs again and ends at 1 + (1 - 0).                        *)
C14_Witness ==
    /\ status = "run" /\ clock = 1
    /\ \E i \in 1..Len(timers) :
          /\ ~timers[i].Paused /\ timers[i].Remaining = 1
          /\ timers[i].Duration = 1 /\ timers[i].End = 2

(* The steps of model.Update that handle a key. *)
C15_KeyStep ==
    \/ KeyHelp \/ FormPrev \/ FormNext \/ FormEnter \/ FormEsc \/ FormBackspace
    \/ \E str \in NameInputs \cup DurInputs : FormRune(str)
    \/ \E k \in OtherKeys : KeySwallowed(k)
    \/ KeyQuit \/ KeyPause \/ KeyUp \/ KeyDown \/ KeyReorderUp \/ KeyReorderDown
    \/ KeyDelete \/ KeyYes \/ KeyNo \/ KeyAdd \/ KeyRestart \/ KeyEdit \/ KeyTab
    \/ \E f \in {filterAll, filterActive, filterPaused, filterDone} : KeyFilter(f)
    \/ \E action \in BulkActions : BulkTrigger(action)
    \/ BulkConfirm \/ BulkCancel \/ BulkSwallowed

(* C15: every key event that changes the timer collection (add, edit,       *)
(* delete, reorder, pause, resume, restart, bulk action) leaves the dirty   *)
(* flag true.                                                               *)
C15_ChangeSetsDirty ==
    [][ (C15_KeyStep /\ timers' # timers) => dirty' ]_vars

(* A clean store of two different timers with the cursor on the second:     *)
(* the reorder key is taken and swaps them.                                 *)
C15_Witness ==
    /\ status = "run" /\ ~dirty /\ Len(timers) = 2 /\ timers[1] # timers[2]
    /\ ActualIdx = 1 /\ ENABLED KeyReorderUp

(* The key of the step finds no timer under the cursor, or finds one that   *)
(* its operation does not apply to.                                         *)
C16_NoTarget ==
    LET idx == ActualIdx
        t == timers[idx + 1]
    IN \/ /\ KeyPause
          /\ \/ idx < 0
             \/ ~t.Paused /\ t.End <= clock
             \/ t.Paused /\ t.Remaining <= 0
       \/ KeyRestart /\ (idx < 0 \/ t.Duration <= 0)
       \/ (KeyEdit \/ KeyDelete \/ KeyYes \/ KeyReorderUp \/ KeyReorderDown) /\ idx < 0

(* C16: pause/resume, restart, edit, delete and reorder change neither the  *)
(* store nor the dirty flag nor the mode when the cursor addresses no timer *)
(* of the view or the addressed timer is ineligible (pause with end <= now, *)
(* resume with remaining <= 0, restart with duration <= 0).                 *)
C16_IneligibleIsNoOp ==
    [][ C16_NoTarget =>
          /\ timers' = timers /\ dirty' = dirty
          /\ ModeFlags' = ModeFlags ]_vars

(* The cursor is on a paused timer without remaining time and without a     *)
(* duration, and the pause and restart keys are taken.                      *)
C16_Witness ==
    /\ status = "run" /\ Browsing /\ ActualIdx >= 0
    /\ timers[ActualIdx + 1].Paused /\ timers[ActualIdx + 1].Remaining = 0
    /\ timers[ActualIdx + 1].Duration = 0
    /\ ENABLED KeyPause /\ ENABLED KeyRestart

(* C17: the quit key in the main view ends the program whether or not the   *)
(* store is dirty and whether or not the write succeeds; a clean store      *)
(* leaves the save file alone; a dirty store is written, and what a         *)
(* successful write leaves in the file is the store in memory.              *)
C17_QuitSavesIffDirty ==
    [][ (Browsing /\ KeyQuit) =>
          /\ status' = "quit"
          /\ timers' = timers
          /\ ~dirty => (file' = file /\ fileMod' = fileMod)
          /\ dirty => \/ file' = timers /\ fileMod' = fileMod + 1
                      \/ file' = file /\ fileMod' = fileMod ]_vars

(* The program has quit with a dirty, non-empty store that the save file    *)
(* now holds.                                                               *)
C17_Witness ==
    /\ status = "quit" /\ Browsing /\ dirty
    /\ Len(timers) > 0 /\ file = timers /\ lastModTime = fileMod

(* C18: a successful go-countdown edit leaves the timer it addressed not    *)
(* paused, with no remaining time, with the name and the duration given on  *)
(* the command line (kept where none is given), and with its end at the     *)
(* instant of the edit plus its duration.                                   *)
C18_EditRearms ==
    [][ \A f \in CliFilters, idx \in 0..MaxTimers, name \in CliNames,
           durationStr \in CliDurations :
          (CLIEdit(f, idx, name, durationStr) /\ cliExit' = 0) =>
             LET u == file'[resolveIndex(file, f, idx) + 1]
             IN /\ ~u.Paused /\ u.Remaining = 0
                /\ name # <<>> => u.Name = name
                /\ durationStr # <<>> => u.Duration = parseDuration(durationStr).val
                /\ u.End = clock + u.Duration ]_vars

(* The predicate of each view, at instant n. *)
C19_Satisfies(t, view, n) ==
    CASE view = "active" -> ~t.Paused /\ t.End > n
      [] view = "paused" -> t.Paused
      [] view = "done" -> ~t.Paused /\ t.End <= n
      [] OTHER -> TRUE

(* v lists, in the order of the store ts, exactly the timers of ts that     *)
(* satisfy the predicate of the view.                                       *)
C19_IsView(v, ts, view, n) ==
    LET I == {i \in 1..Len(ts) : C19_Satisfies(ts[i], view, n)}
        Kth(k) == CHOOSE i \in I : Cardinality({j \in I : j <= i}) = k
    IN /\ Len(v) = Cardinality(I)
       /\ \A k \in 1..Len(v) : v[k] = ts[Kth(k)]

(* C19: for every filter mode, getVisibleTimers (TUI, at m.now) and         *)
(* getFilteredTimers (CLI, at time.Now()) give an order-preserving          *)
(* subsequence of the store holding exactly the timers that satisfy the     *)
(* filter's predicate; under the All filter they give the store itself.     *)
C19_ViewIsFilteredStore ==
    /\ C19_IsView(getVisibleTimers(timers, filterAll, now), timers, "all", now)
    /\ C19_IsView(getVisibleTimers(timers, filterActive, now), timers, "active", now)
    /\ C19_IsView(getVisibleTimers(timers, filterPaused, now), timers, "paused", now)
    /\ C19_IsView(getVisibleTimers(timers, filterDone, now), timers, "done", now)
    /\ getVisibleTimers(timers, filterAll, now) = timers
    /\ C19_IsView(getFilteredTimers(timers, ""), timers, "all", clock)
    /\ C19_IsView(getFilteredTimers(timers, "--active"), timers, "active", clock)
    /\ C19_IsView(getFilteredTimers(timers, "--paused"), timers, "paused", clock)
    /\ C19_IsView(getFilteredTimers(timers, "--done"), timers, "done", clock)
    /\ getFilteredTimers(timers, "") = timers

(* A store of two different timers of which the current view shows both,    *)
(* and another view only the second.                                        *)
C19_Witness ==
    /\ status = "run" /\ Len(timers) = 2 /\ timers[1] # timers[2]
    /\ Len(Visible) = 2
    /\ \E f \in Buckets : getVisibleTimers(timers, f, now) = <<timers[2]>>

(* C20: for every filter and every cursor inside the view,                  *)
(* getActualTimerIndex gives the store index of the timer shown at the      *)
(* cursor, which therefore satisfies the predicate of the filter; it gives  *)
(* -1 exactly when the cursor is outside the view.                          *)
C20_ActualIndexResolves ==
    \A f \in {filterAll, filterActive, filterPaused, filterDone} :
       LET visibleTimers == getVisibleTimers(timers, f, now)
       IN \A c \in -1..MaxTimers :
             LET idx == getActualTimerIndex(timers, f, now, c)
             IN IF 0 <= c /\ c < Len(visibleTimers)
                THEN /\ idx >= 0 /\ idx < Len(timers)
                     /\ timers[idx + 1] = visibleTimers[c + 1]
                     /\ FilterMatches(timers[idx + 1], f, now)
                ELSE idx = -1

(* C21: after every event the cursor lies in the current view:              *)
(* 0 <= cursor <= max(0, len(visible) - 1).                                 *)
C21_CursorInView ==
    /\ 0 <= cursor
    /\ cursor <= (IF Len(Visible) - 1 > 0 THEN Len(Visible) - 1 ELSE 0)

(* C22: the confirmed delete-done action leaves exactly the timers that are *)
(* paused or end after the instant of the action, in the order of the       *)
(* store; no timer left is running with its end reached; the count of the   *)
(* action is the number of timers removed.                                  *)
C22_DeleteDoneKeepsRest ==
    [][ (confirmingBulk /\ pendingBulkAction = bulkDeleteDone /\ BulkConfirm) =>
          LET I == {i \in 1..Len(timers) : timers[i].Paused \/ timers[i].End > clock}
              Kth(k) == CHOOSE i \in I : Cardinality({j \in I : j <= i}) = k
          IN /\ Len(timers') = Cardinality(I)
             /\ \A k \in 1..Len(timers') : timers'[k] = timers[Kth(k)]
             /\ \A k \in 1..Len(timers') :
                   ~(~timers'[k].Paused /\ timers'[k].End <= clock)
             /\ BulkCount(timers, bulkDeleteDone) = Len(timers) - Len(timers') ]_vars

(* The delete-done confirmation is open on a store whose first timer is     *)
(* paused with its end reached and whose second timer is done, and the      *)
(* confirm key is taken.                                                    *)
C22_Witness ==
    /\ status = "run" /\ confirmingBulk /\ pendingBulkAction = bulkDeleteDone
    /\ Len(timers) = 2
    /\ timers[1].Paused /\ timers[1].End <= clock
    /\ ~timers[2].Paused /\ timers[2].End <= clock
    /\ ENABLED BulkConfirm

(* C23: the confirmed pause-all action pauses every timer that is running   *)
(* with its end still ahead and changes no other timer; resume-all applied  *)
(* to its result at the same instant leaves each timer it paused running    *)
(* again with the end it had before (so within one second of it).           *)
C23_PauseAllResumeAll ==
    [][ (confirmingBulk /\ pendingBulkAction = bulkPauseAll /\ BulkConfirm) =>
          LET resumed == BulkResult(timers', bulkResumeAll)
          IN /\ Len(timers') = Len(timers) /\ Len(resumed) = Len(timers)
             /\ \A i \in 1..Len(timers) :
                   IF ~timers[i].Paused /\ timers[i].End > clock
                   THEN /\ timers'[i].Paused
                        /\ ~resumed[i].Paused
                        /\ resumed[i].End = timers[i].End
                   ELSE timers'[i] = timers[i] ]_vars

(* The pause-all confirmation is open on a store with a paused timer and a  *)
(* running one, and the confirm key is taken.                               *)
C23_Witness ==
    /\ status = "run" /\ confirmingBulk /\ pendingBulkAction = bulkPauseAll
    /\ Len(timers) = 2
    /\ timers[1].Paused
    /\ ~timers[2].Paused /\ timers[2].End > clock
    /\ ENABLED BulkConfirm

(* C24: a confirmed bulk action that affects at least one timer leaves the  *)
(* dirty flag true; one for which no timer is eligible leaves the store and *)
(* the dirty flag as they were.                                             *)
C24_BulkDirtyIffAffected ==
    [][ (confirmingBulk /\ BulkConfirm) =>
          IF \E i \in 1..Len(timers) : BulkEligible(timers[i], pendingBulkAction)
          THEN dirty'
          ELSE timers' = timers /\ dirty' = dirty ]_vars

(* A bulk confirmation is open on a clean, non-empty store none of whose    *)
(* timers the action applies to, and the confirm key is taken.              *)
C24_Witness ==
    /\ status = "run" /\ confirmingBulk /\ ~dirty /\ Len(timers) > 0
    /\ BulkCount(timers, pendingBulkAction) = 0
    /\ ENABLED BulkConfirm

C26_IneligibleExitsOne ==
    [][ \A f \in CliFilters, idx \in CliIndices :
          LET actualIdx == resolveIndex(file, f, idx)
              t == file[actualIdx + 1]
          IN (/\ actualIdx >= 0
              /\ \/ CLIPause(f, idx) /\ ~t.Paused /\ t.End <= clock
                 \/ CLIResume(f, idx) /\ t.Paused /\ t.Remaining <= 0
                 \/ CLIRestart(f, idx) /\ t.Duration <= 0)
             => (cliExit' = 1 /\ file' = file /\ fileMod' = fileMod) ]_vars

(* C27: the overlay never indexes the popup lines or a line out of range    *)
(* and gives exactly as many rows as the viewport is high, also when the    *)
(* popup is higher than the viewport (its first line is then on row 0);     *)
(* on a row of the popup a background line shorter than the column offset   *)
(* is padded with spaces to that offset, where the popup line starts.       *)
C27_OverlayInRange ==
    cpc = "composited" =>
       LET height == IF cd.height = 0 THEN DefaultHeight ELSE cd.height
           width == IF cd.width = 0 THEN DefaultWidth ELSE cd.width
           popupHeight == Len(cd.popupLines)
           rowOffset == IF height - popupHeight >= 2 THEN (height - popupHeight) \div 2 ELSE 0
           colOffset == IF width - PopupWidth >= 2 THEN (width - PopupWidth) \div 2 ELSE 0
       IN /\ ~cparsed.panic
          /\ Len(cparsed.rows) = height
          /\ \A r \in 1..height :
                LET k == r - rowOffset
                    bg == IF r <= Len(cd.mainLines) THEN cd.mainLines[r] ELSE <<>>
                    line == cparsed.rows[r]
                IN IF 1 <= k /\ k <= popupHeight
                   THEN /\ Len(line) >= colOffset + Len(cd.popupLines[k])
                        /\ SubSeq(line, colOffset + 1, colOffset + Len(cd.popupLines[k]))
                             = cd.popupLines[k]
                        /\ Len(bg) < colOffset =>
                             SubSeq(line, 1, colOffset) = bg \o Spaces(colOffset - Len(bg))
                   ELSE line = (IF r <= Len(cd.mainLines) THEN bg ELSE Spaces(width))

(* A popup of 30 lines composited into a viewport 5 rows high and 81        *)
(* columns wide over background lines of one character.                     *)
C27_Witness ==
    /\ cpc = "composited"
    /\ Len(cd.popupLines) = 30 /\ cd.height = 5 /\ cd.width = 81
    /\ Len(cd.mainLines) = 3 /\ Len(cd.mainLines[1]) = 1
    /\ Len(cparsed.rows) = 5

(* Text t holds the suffix u right after a digit. *)
C28_Has(t, u) == \E i \in 2..Len(t) : t[i] = u /\ IsDigit(t[i - 1])

(* C28: in smart mode the unit of the adjustment is the largest suffix of   *)
(* the text that follows a digit, in the order y > d > h > m > s; a text    *)
(* with only a seconds suffix is adjusted by seconds, and minutes are the   *)
(* unit of a text without a suffix.                                         *)
C28_SmartUnit ==
    (cpc = "unit" /\ cd = "smart") =>
       cparsed = (IF C28_Has(ctext, "y") THEN 365 * 24 * Hour
                  ELSE IF C28_Has(ctext, "d") THEN 24 * Hour
                  ELSE IF C28_Has(ctext, "h") THEN Hour
                  ELSE IF C28_Has(ctext, "m") THEN Minute
                  ELSE IF C28_Has(ctext, "s") THEN Second
                  ELSE Minute)

(* What a file-watch event that does not reload leaves alone. *)
C29_Kept ==
    <<timers, cursor, filter, dirty, ModeFlags, editingIndex, inputFields,
      activeField, pendingBulkAction, lastModTime, now, file, fileMod>>

(* C29: a file-watch event that finds the save file newer than lastModTime  *)
(* and loads it makes the store the timer list of the file and lastModTime  *)
(* the modification time of the file, and leaves the dirty flag and the     *)
(* mode alone; this reload is open to it whatever the dirty flag and the    *)
(* mode are.  A file-watch event that finds the file no newer, or cannot    *)
(* load it, changes nothing.                                                *)
C29_ReloadReplacesStore ==
    /\ [][ FileWatchMsg =>
             \/ /\ fileMod > lastModTime
                /\ timers' = file /\ lastModTime' = fileMod
                /\ UNCHANGED <<cursor, filter, dirty, ModeFlags, editingIndex,
                               inputFields, activeField, pendingBulkAction, now,
                               file, fileMod>>
             \/ UNCHANGED C29_Kept ]_vars
    /\ [][ (FileWatchMsg /\ ~(fileMod > lastModTime)) => UNCHANGED C29_Kept ]_vars
    /\ []( (status = "run" /\ fileMod > lastModTime) =>
              ENABLED (FileWatchMsg /\ timers' = file /\ lastModTime' = fileMod
                         /\ dirty' = dirty) )

(* The store is dirty, the edit form is open and the save file, which holds *)
(* other timers, is newer than the store: the file-watch event arrives.     *)
C29_Witness ==
    /\ status = "run" /\ dirty /\ editing
    /\ fileMod > lastModTime /\ file # timers
    /\ ENABLED FileWatchMsg

C31_ActiveBecomesDone ==
    \A i \in 1..MaxTimers : \A e \in 1..MaxClock :
       (/\ status = "run" /\ Len(timers) >= i
        /\ ~timers[i].Paused /\ timers[i].End = e /\ now < e)
       ~> (\/ status # "run" \/ Len(timers) < i
           \/ timers[i].Paused \/ timers[i].End # e
           \/ /\ now >= e
              /\ FilterMatches(timers[i], filterDone, now)
              /\ ~FilterMatches(timers[i], filterActive, now))

(* A timer that was running has its end reached by m.now and is shown in    *)
(* the Done view.                                                           *)
C31_Witness ==
    /\ status = "run" /\ now > 0 /\ filter = filterDone
    /\ Len(Visible) > 0 /\ Visible[1].End = now /\ Visible[1].Duration > 0

(* C32: every paused timer, in the store of the TUI and in the save file,   *)
(* has a remaining time that is not negative, also when the clock moves     *)
(* between the check t.End.After(time.Now()) and time.Until(t.End).         *)
C32_PausedRemainingNonNegative ==
    /\ \A i \in 1..Len(timers) : timers[i].Paused => timers[i].Remaining >= 0
    /\ \A i \in 1..Len(file) : file[i].Paused => file[i].Remaining >= 0

(* C33: while the delete confirmation stays open, the timer the cursor      *)
(* resolves to, which is the one "y" removes, is the timer it resolved to   *)
(* before the step: no tick and no reload puts another timer under the      *)
(* open dialog.                                                             *)
C33_DialogTargetStable ==
    [][ (/\ confirmingDelete /\ confirmingDelete'
         /\ status' = "run" /\ ActualIdx' >= 0)
        => (/\ ActualIdx >= 0
            /\ timers'[ActualIdx' + 1] = timers[ActualIdx + 1]) ]_vars

(* C34: whenever the delete confirmation is open the cursor resolves to an  *)
(* index of the store, so that View, which reads m.timers[actualIdx].Name,  *)
(* does not index out of range.                                             *)
C34_DialogCursorResolves ==
    confirmingDelete => (ActualIdx >= 0 /\ ActualIdx < Len(timers) /\ status # "panic")

(* C35: when the edit form is committed with a valid name and duration,     *)
(* editingIndex is an index of the store as it is then, and the commit      *)
(* does not index m.timers out of range.                                    *)
C35_EditCommitInBounds ==
    [][ (/\ FormEnter /\ editing
         /\ activeField >= Len(inputFields) - 1
         /\ parseDuration(inputFields[2]).ok /\ inputFields[1] # <<>>)
        => (editingIndex < Len(timers) /\ status' = "run") ]_vars

(* C36: exactly one tick timer is armed at any time: the chain started by   *)
(* Init, which each tickMsg renews; no form commit and no restart adds a    *)
(* second one.                                                              *)
C36_OneTickChain == pendingTicks = 1

(* The duration adjustDuration reads from a text: parseDuration of it, and  *)
(* 0 for a text it rejects.                                                 *)
C37_Denotes(text) ==
    LET r == parseDuration(text) IN IF r.ok THEN r.val ELSE 0

(* C37: from a text that denotes a duration, an increase gives a text that  *)
(* does not denote a shorter duration and a decrease gives a text that      *)
(* does not denote a longer one.                                            *)
C37_AdjustMonotone ==
    [][ (CodecAdjust /\ parseDuration(ctext).ok)
        => /\ cd > 0 => C37_Denotes(ctext') >= C37_Denotes(ctext)
           /\ cd < 0 => C37_Denotes(ctext') <= C37_Denotes(ctext) ]_vars

(* The status sign of the timers of a bucket. *)
C38_SignOf(f) ==
    IF f = filterActive THEN "running"
    ELSE IF f = filterPaused THEN "paused"
    ELSE "done"

(* C38: under the Active, Paused or Done filter every row of the table      *)
(* shows the status of that bucket, whatever the lag between m.now, which   *)
(* the filter reads, and the wall clock, which the status reads.            *)
C38_StatusAgreesWithBucket ==
    (status = "run" /\ filter # filterAll)
    => \A i \in 1..Len(updateTableRows(timers, filter, now)) :
          updateTableRows(timers, filter, now)[i][1] = C38_SignOf(filter)

(* The sum of the components of a text parseDuration accepts, computed      *)
(* without the wrap of the int64.                                           *)
RECURSIVE C39_SumLoop(_, _, _)
C39_SumLoop(input, i, total) ==
    IF i > Len(input) THEN total
    ELSE IF input[i] = " " THEN C39_SumLoop(input, i + 1, total)
    ELSE LET j == DigitsEnd(input, i)
             num == Atoi(SubSeq(input, i, j - 1))
             suffix == IF j <= Len(input) THEN input[j] ELSE "s"
             next == IF j <= Len(input) THEN j + 1 ELSE j
             unit == UnitSeconds(suffix)
         IN C39_SumLoop(input, next,
                NsAdd(total, IF unit >= Hour
                             THEN Ns(num * (unit \div Hour), 0, 0)
                             ELSE Ns((num * unit) \div Hour, (num * unit) % Hour, 0)))

C39_ExactSum(text) == C39_SumLoop(TrimSpace(ToLower(text)), 1, NsZero)

(* C39: when parseDuration succeeds its value is the exact sum of the       *)
(* components of the text, which then lies within the int64 range of        *)
(* nanoseconds; a text whose sum is beyond that range is rejected.          *)
C39_ParseExact ==
    (cpc = "parsedText" /\ cparsed.ok)
    => (cparsed.ns = C39_ExactSum(ctext) /\ NsLess(C39_ExactSum(ctext), Two63))

(* C40: after a reorder up or down that swaps two timers, the cursor        *)
(* resolves to the timer that was moved, under every filter, also when the  *)
(* store neighbour it changed places with is not in the view.               *)
C40_CursorFollowsMoved ==
    [][ ((KeyReorderUp \/ KeyReorderDown) /\ timers' # timers)
        => (/\ ActualIdx' >= 0
            /\ timers'[ActualIdx' + 1] = timers[ActualIdx + 1]) ]_vars

====
